---- MODULE Spec2Model ----
(***************************************************************************)
(* Storage-resilience and data-integrity layer of the ToDo application:    *)
(* StorageService (the persistence gateway over localStorage with an       *)
(* in-memory fallback Map), and the Task / Project models it serializes.   *)
(*                                                                         *)
(* JavaScript values are tagged records: Null, Undefined, [array |-> s],   *)
(* [str |-> chars], [date |-> t], [iso |-> t], plain objects as records.   *)
(* The data handed to save() are structured records (arrays and objects),  *)
(* as they are for every caller of the gateway in the repository.          *)
(***************************************************************************)
EXTENDS Integers, Sequences, FiniteSets, TLC

VARIABLES
    localStorage,       \* the underlying store: full key -> Null | stored string
    _fallbackStorage,   \* the Map, as a sequence of [key, value] in insertion order
    _isAvailable,       \* result of the probe made once by the constructor
    _quotaExceeded,
    _usingFallback,
    now,                \* the clock read by new Date()
    call,               \* the last operation: its name, arguments, result, store access
    lastSaved,          \* history: per full key, the value of the last save that returned
                        \*   true, Undefined after a remove / clear of the key
    writeLog,           \* history: the outcomes of all store writes attempted so far
    projectService,     \* the ProjectService singleton: its _projects and _initialized
    taskService         \* the TaskService singleton: its _tasks and _initialized

vars == <<localStorage, _fallbackStorage, _isAvailable, _quotaExceeded,
          _usingFallback, now, call, lastSaved, writeLog, projectService, taskService>>

\* the two repository services, which the gateway's own operations never touch
services == <<projectService, taskService>>

-----------------------------------------------------------------------------
(* Bounds *)

MaxStored == 2      \* longest task / project collection found in the store at start

-----------------------------------------------------------------------------
(* JavaScript values *)

Null == [null |-> TRUE]
Undefined == [undefined |-> TRUE]

\* `x || null` on a structured value: only undefined and null are falsy there
OrNull(x) == IF x \in {Undefined, Null} THEN Null ELSE x

IsArray(x) == DOMAIN x = {"array"}

\* typeof x === 'object' for a non-falsy x (arrays are objects)
IsObject(x) == ~ (DOMAIN x \subseteq {"null", "undefined", "str", "num", "bool"})

Max(a, b) == IF a >= b THEN a ELSE b

\* Map: insertion-ordered sequence of [key, value]
MapHas(m, k) == \E i \in 1..Len(m) : m[i].key = k

MapGet(m, k) ==
    IF MapHas(m, k) THEN m[CHOOSE i \in 1..Len(m) : m[i].key = k].value ELSE Undefined

MapSet(m, k, v) ==
    IF MapHas(m, k)
    THEN [i \in 1..Len(m) |-> IF m[i].key = k THEN [key |-> k, value |-> v] ELSE m[i]]
    ELSE Append(m, [key |-> k, value |-> v])

MapDelete(m, k) == SelectSeq(m, LAMBDA e : e.key # k)

MapKeys(m) == [i \in 1..Len(m) |-> m[i].key]

\* JSON.stringify of a structured value is a JSON text; JSON.parse reads it back.
\* A stored string that is no JSON text makes JSON.parse throw.
JSONstringify(data) == [json |-> data]

CanParse(s) == DOMAIN s = {"json"}

JSONparse(s) == s.json

\* length of a stored string: 2 for the brackets plus a unit per field / element
RECURSIVE JSONlength(_)
JSONlength(d) ==
    IF IsArray(d)
    THEN 2 + (IF d.array = <<>> THEN 0
              ELSE JSONlength(Head(d.array)) + JSONlength([array |-> Tail(d.array)]) - 2)
    ELSE 2 + Cardinality(DOMAIN d)

length(s) == IF CanParse(s) THEN JSONlength(s.json) ELSE Len(s.str)

-----------------------------------------------------------------------------
(* Keys *)

prefix == "todoapp_"

keys == [tasks    |-> <<prefix, "tasks">>,
         projects |-> <<prefix, "projects">>,
         settings |-> <<prefix, "settings">>]

startsWithPrefix(key) == Len(key) > 0 /\ key[1] = prefix

\* key.startsWith(this.prefix) ? key : `${this.prefix}${key}`
FullKey(key) == IF startsWithPrefix(key) THEN key ELSE <<prefix>> \o key

KeyNames == {"tasks", "projects", "settings", "test"}

FullKeys == {<<prefix, n>> : n \in KeyNames}

\* key.includes('tasks') || key.includes('projects')
isEssential(key) == \E i \in 1..Len(key) : key[i] \in {"tasks", "projects"}

\* the gateway's fields as one record
Gateway == [ls |-> localStorage, fb |-> _fallbackStorage, isAvailable |-> _isAvailable,
            quotaExceeded |-> _quotaExceeded, usingFallback |-> _usingFallback]

\* the keys of the store under the prefix, in the order localStorage.key(i) gives them
\* (`ord`: the store's enumeration order, which the platform chooses)
storeKeys(g, ord) == SelectSeq(ord, LAMBDA k : startsWithPrefix(k) /\ g.ls[k] # Null)

Orders == {o \in [1..Cardinality(FullKeys) -> FullKeys] :
              \A i, j \in DOMAIN o : i # j => o[i] # o[j]}

-----------------------------------------------------------------------------
(* StorageService: private helpers *)

\* comparator of the sort in _attemptCleanup: negative when a goes before b
cleanupCompare(a, b) ==
    IF a.isEssential # b.isEssential
    THEN (IF a.isEssential THEN 1 ELSE -1)
    ELSE b.size - a.size

\* Array.prototype.sort is stable: x goes after the elements that do not follow it
RECURSIVE insertSorted(_, _)
insertSorted(sorted, x) ==
    IF sorted = <<>> THEN <<x>>
    ELSE IF cleanupCompare(Head(sorted), x) <= 0
         THEN <<Head(sorted)>> \o insertSorted(Tail(sorted), x)
         ELSE <<x>> \o sorted

RECURSIVE sortCleanup(_)
sortCleanup(s) ==
    IF s = <<>> THEN <<>>
    ELSE insertSorted(sortCleanup(SubSeq(s, 1, Len(s) - 1)), s[Len(s)])

\* as cleanupLoop, but the essential items are removed like the others
RECURSIVE cleanupLoop_removesEssential(_, _, _, _)
cleanupLoop_removesEssential(ls, items, removedCount, maxToRemove) ==
    IF items = <<>> THEN [ls |-> ls, removedCount |-> removedCount]
    ELSE IF removedCount < maxToRemove
         THEN cleanupLoop_removesEssential([ls EXCEPT ![Head(items).key] = Null],
                                           Tail(items), removedCount + 1, maxToRemove)
         ELSE cleanupLoop_removesEssential(ls, Tail(items), removedCount, maxToRemove)

\* the removal loop of _attemptCleanup
RECURSIVE cleanupLoop(_, _, _, _)
cleanupLoop(ls, items, removedCount, maxToRemove) ==
    IF items = <<>> THEN [ls |-> ls, removedCount |-> removedCount]
    ELSE LET item == Head(items) IN
         IF ~item.isEssential /\ removedCount < maxToRemove
         THEN cleanupLoop([ls EXCEPT ![item.key] = Null], Tail(items),
                          removedCount + 1, maxToRemove)
         ELSE cleanupLoop(ls, Tail(items), removedCount, maxToRemove)

_attemptCleanup(g, ord) ==
    IF ~g.isAvailable THEN [g |-> g, ret |-> FALSE]
    ELSE LET keysToCheck == storeKeys(g, ord)
             keysSorted == sortCleanup(
                 [i \in 1..Len(keysToCheck) |->
                     [key |-> keysToCheck[i],
                      size |-> length(g.ls[keysToCheck[i]]),
                      isEssential |-> isEssential(keysToCheck[i])]])
             maxToRemove == Max(1, Len(keysSorted) \div 4)
             done == cleanupLoop(g.ls, keysSorted, 0, maxToRemove)
         IN  [g |-> [g EXCEPT !.ls = done.ls], ret |-> done.removedCount > 0]

\* keysToMigrate.forEach: a key whose value does not parse is skipped
RECURSIVE migrateLoop(_, _, _)
migrateLoop(ls, fb, keysToMigrate) ==
    IF keysToMigrate = <<>> THEN fb
    ELSE LET key == Head(keysToMigrate)
             value == ls[key]
         IN  IF value # Null /\ CanParse(value)
             THEN migrateLoop(ls, MapSet(fb, key, JSONparse(value)), Tail(keysToMigrate))
             ELSE migrateLoop(ls, fb, Tail(keysToMigrate))

_migrateToFallback(g, ord) ==
    IF ~g.isAvailable THEN g
    ELSE [g EXCEPT !.fb = migrateLoop(g.ls, g.fb, storeKeys(g, ord))]

_switchToFallback_withoutMigration(g, ord) == [g EXCEPT !.usingFallback = TRUE]

_switchToFallback(g, ord) ==
    IF ~g.usingFallback
    THEN _migrateToFallback([g EXCEPT !.usingFallback = TRUE], ord)
    ELSE g

-----------------------------------------------------------------------------
(* StorageService: save / load / remove / clear *)

\* what localStorage.setItem does on one call
Outcomes == {"ok", "quota", "error"}

storeUsable_ignoresFallback(g) == g.isAvailable

storeUsable_ignoresAvailability(g) == ~g.usingFallback

\* `this._isAvailable && !this._usingFallback`: the guard of save and of load
storeUsable(g) == g.isAvailable /\ ~g.usingFallback

useFallback_dropsData(g, fullKey, data) == g

\* as useFallback, but a value the map already holds under the key stays
useFallback_keepsMigrated(g, fullKey, data) ==
    IF MapHas(g.fb, fullKey) THEN g ELSE [g EXCEPT !.fb = MapSet(g.fb, fullKey, data)]

\* "Use fallback storage": this._fallbackStorage.set(fullKey, data)
useFallback(g, fullKey, data) == [g EXCEPT !.fb = MapSet(g.fb, fullKey, data)]

\* save(key, data); o1 and o2 are what setItem does on the first try and on the retry.
\* Result: the gateway afterwards, the returned value, whether the store was
\* accessed, and the outcomes of the writes that were attempted.
save(g, key, data, o1, o2, ord) ==
    LET fullKey == FullKey(key)
        stored(h) == [h EXCEPT !.ls[fullKey] = JSONstringify(data),
                               !.quotaExceeded = FALSE]
    IN  IF storeUsable(g)
        THEN IF o1 = "ok"
             THEN [g |-> stored(g), ret |-> TRUE, access |-> TRUE, writes |-> {o1}]
             ELSE IF o1 = "quota"
             THEN LET c == _attemptCleanup([g EXCEPT !.quotaExceeded = TRUE], ord) IN
                  IF c.ret
                  THEN IF o2 = "ok"
                       THEN [g |-> stored(c.g), ret |-> TRUE, access |-> TRUE,
                             writes |-> {o1, o2}]
                       ELSE [g |-> useFallback(_switchToFallback(c.g, ord), fullKey, data),
                             ret |-> TRUE, access |-> TRUE, writes |-> {o1, o2}]
                  ELSE [g |-> useFallback(_switchToFallback(c.g, ord), fullKey, data),
                        ret |-> TRUE, access |-> TRUE, writes |-> {o1}]
             ELSE [g |-> useFallback(_switchToFallback(g, ord), fullKey, data),
                   ret |-> TRUE, access |-> TRUE, writes |-> {o1}]
        ELSE [g |-> useFallback(g, fullKey, data), ret |-> TRUE, access |-> FALSE,
              writes |-> {}]

load(g, key) ==
    LET fullKey == FullKey(key) IN
    IF storeUsable(g)
    THEN LET serializedData == g.ls[fullKey] IN
         IF serializedData = Null
         THEN [ret |-> OrNull(MapGet(g.fb, fullKey)), access |-> TRUE]
         ELSE IF CanParse(serializedData)
              THEN [ret |-> JSONparse(serializedData), access |-> TRUE]
              ELSE [ret |-> OrNull(MapGet(g.fb, fullKey)), access |-> TRUE]
    ELSE [ret |-> OrNull(MapGet(g.fb, fullKey)), access |-> FALSE]

remove(g, key) ==
    LET fullKey == FullKey(key) IN
    [g |-> [g EXCEPT !.ls = IF g.isAvailable THEN [g.ls EXCEPT ![fullKey] = Null]
                            ELSE g.ls,
                     !.fb = MapDelete(g.fb, fullKey)],
     ret |-> g.isAvailable \/ MapHas(g.fb, fullKey),
     access |-> g.isAvailable]

clear(g) ==
    LET fallbackKeys == SelectSeq(MapKeys(g.fb), startsWithPrefix) IN
    [g |-> [g EXCEPT
              !.ls = IF g.isAvailable
                     THEN [k \in DOMAIN g.ls |->
                              IF startsWithPrefix(k) THEN Null ELSE g.ls[k]]
                     ELSE g.ls,
              !.quotaExceeded = IF g.isAvailable THEN FALSE ELSE g.quotaExceeded,
              !.fb = SelectSeq(g.fb, LAMBDA e : ~startsWithPrefix(e.key))],
     ret |-> g.isAvailable \/ Len(fallbackKeys) > 0,
     access |-> g.isAvailable]

-----------------------------------------------------------------------------
(* Strings, dates and ids of the entity models *)

Str(chars) == [str |-> chars]       \* a text, as its characters
Lit(a) == [lit |-> a]               \* a string used as a whole (an id, an enum value)
Iso(t) == [iso |-> t]               \* the ISO-8601 string of instant t
Date(t) == [date |-> t]             \* a Date object of instant t
InvalidDate == [invalidDate |-> TRUE]   \* a Date object whose time value is NaN
Bool(b) == [bool |-> b]
Num(n) == [num |-> n]
Uuid(n) == [uuid |-> n]             \* the n-th string uuidv4() produces

IsString(x) == DOMAIN x \in {{"str"}, {"lit"}, {"iso"}, {"uuid"}}

IsDate(x) == DOMAIN x \in {{"date"}, {"invalidDate"}}

\* !x
Falsy(x) == x \in {Undefined, Null, Str(<<>>), Lit(""), Bool(FALSE), Num(0)}

\* String.prototype.trim
RECURSIVE trimStart(_)
trimStart(c) == IF c # <<>> /\ Head(c) = " " THEN trimStart(Tail(c)) ELSE c

RECURSIVE trimEnd(_)
trimEnd(c) ==
    IF c # <<>> /\ c[Len(c)] = " " THEN trimEnd(SubSeq(c, 1, Len(c) - 1)) ELSE c

trim(x) == IF DOMAIN x = {"str"} THEN Str(trimEnd(trimStart(x.str))) ELSE x

\* new Date(x) for a Date, an ISO string, any other string
newDate(x) ==
    IF IsDate(x) THEN x
    ELSE IF DOMAIN x = {"iso"} THEN Date(x.iso)
    ELSE InvalidDate

\* Date.prototype.toISOString throws a RangeError on an invalid date
toISOStringThrows(d) == d = InvalidDate

toISOString(d) == Iso(d.date)

\* a property of an object; undefined when the object has none of that name
Prop(obj, f) == IF f \in DOMAIN obj THEN obj[f] ELSE Undefined

\* a destructured parameter with a default: the default replaces undefined only
Param(obj, f, default) == IF Prop(obj, f) = Undefined THEN default ELSE Prop(obj, f)

\* the indices of the uuids among a sequence of ids
RECURSIVE maxUuid(_)
maxUuid(ids) ==
    IF ids = <<>> THEN 0
    ELSE Max(IF DOMAIN Head(ids) = {"uuid"} THEN Head(ids).uuid ELSE 0,
             maxUuid(Tail(ids)))

-----------------------------------------------------------------------------
(* Task *)

validPriorities == {Lit("high"), Lit("medium"), Lit("low")}

\* the checklist item that the constructor's forEach rejects, if any
checklistItemThrows(item) ==
    \/ Falsy(item) \/ ~IsObject(item)
    \/ Falsy(Prop(item, "text")) \/ ~IsString(Prop(item, "text"))
    \/ DOMAIN Prop(item, "completed") # {"bool"}

\* new Task(d) throws
TaskThrows(d) ==
    LET title == Prop(d, "title")
        priority == Param(d, "priority", Lit("medium"))
        dueDate == Param(d, "dueDate", Null)
        checklist == Param(d, "checklist", [array |-> <<>>])
    IN  \/ Falsy(title) \/ ~IsString(title) \/ trim(title) = Str(<<>>)
        \/ priority \notin validPriorities
        \/ dueDate # Null /\ ~IsDate(dueDate) /\ ~IsString(dueDate)
        \/ ~IsArray(checklist)
        \/ \E i \in 1..Len(checklist.array) : checklistItemThrows(checklist.array[i])

\* how many uuids new Task(d) draws: one for a missing id, one per item without id
RECURSIVE itemsWithoutId(_)
itemsWithoutId(items) ==
    IF items = <<>> THEN 0
    ELSE (IF Falsy(Prop(Head(items), "id")) THEN 1 ELSE 0) + itemsWithoutId(Tail(items))

\* the checklist of the new task; u is the index of the next uuid
RECURSIVE mapChecklist(_, _)
mapChecklist(items, u) ==
    IF items = <<>> THEN <<>>
    ELSE LET item == Head(items)
             fresh == Falsy(Prop(item, "id"))
         IN  <<[id |-> IF fresh THEN Uuid(u) ELSE item.id,
                text |-> trim(item.text),
                completed |-> item.completed]>>
             \o mapChecklist(Tail(items), IF fresh THEN u + 1 ELSE u)

\* new Task(d), for a d the constructor accepts; u is the index of the next uuid,
\* t the clock
Task(d, u, t) ==
    LET id == Param(d, "id", Null)
        dueDate == Param(d, "dueDate", Null)
        checklist == Param(d, "checklist", [array |-> <<>>])
        description == Param(d, "description", Str(<<>>))
        notes == Param(d, "notes", Str(<<>>))
        projectId == Param(d, "projectId", Lit("default"))
        createdAt == Param(d, "createdAt", Null)
        updatedAt == Param(d, "updatedAt", Null)
        u1 == IF Falsy(id) THEN u + 1 ELSE u
    IN  [id |-> IF Falsy(id) THEN Uuid(u) ELSE id,
         title |-> trim(d.title),
         description |-> IF Falsy(description) THEN Str(<<>>) ELSE description,
         dueDate |-> IF Falsy(dueDate) THEN Null ELSE newDate(dueDate),
         priority |-> Param(d, "priority", Lit("medium")),
         notes |-> IF Falsy(notes) THEN Str(<<>>) ELSE notes,
         checklist |-> [array |-> mapChecklist(checklist.array, u1)],
         completed |-> Bool(~Falsy(Param(d, "completed", Bool(FALSE)))),
         projectId |-> IF Falsy(projectId) THEN Lit("default") ELSE projectId,
         createdAt |-> IF Falsy(createdAt) THEN Date(t) ELSE newDate(createdAt),
         updatedAt |-> IF Falsy(updatedAt) THEN Date(t) ELSE newDate(updatedAt)]

uuidsDrawn(d) ==
    (IF Falsy(Param(d, "id", Null)) THEN 1 ELSE 0)
    + itemsWithoutId(Param(d, "checklist", [array |-> <<>>]).array)

\* task.toJSON() throws: toISOString of an invalid date
TaskToJSONThrows(task) ==
    \/ task.dueDate # Null /\ toISOStringThrows(task.dueDate)
    \/ toISOStringThrows(task.createdAt)
    \/ toISOStringThrows(task.updatedAt)

TaskToJSON(task) ==
    [task EXCEPT !.dueDate = IF task.dueDate # Null THEN toISOString(task.dueDate)
                             ELSE Null,
                 !.createdAt = toISOString(task.createdAt),
                 !.updatedAt = toISOString(task.updatedAt)]

\* the argument Task.fromJSON hands to the constructor
TaskFromJSONArgs(data) ==
    [f \in {"id", "title", "description", "dueDate", "priority", "notes", "checklist",
            "completed", "projectId", "createdAt", "updatedAt"} |->
        IF f = "checklist" /\ Falsy(Prop(data, f)) THEN [array |-> <<>>]
        ELSE Prop(data, f)]

TaskFromJSONThrows(data) == TaskThrows(TaskFromJSONArgs(data))

TaskFromJSON(data, u, t) == Task(TaskFromJSONArgs(data), u, t)

\* Task.validate(data).valid
TaskValidate(data) == ~TaskThrows(data)

-----------------------------------------------------------------------------
(* Project *)

\* new Project(d) throws
ProjectThrows(d) ==
    LET name == Prop(d, "name")
        taskCount == Param(d, "taskCount", Num(0))
    IN  \/ Falsy(name) \/ ~IsString(name) \/ trim(name) = Str(<<>>)
        \/ DOMAIN taskCount # {"num"}
        \/ taskCount.num < 0

Project(d, u, t) ==
    LET id == Param(d, "id", Null)
        createdAt == Param(d, "createdAt", Null)
    IN  [id |-> IF Falsy(id) THEN Uuid(u) ELSE id,
         name |-> trim(d.name),
         createdAt |-> IF Falsy(createdAt) THEN Date(t) ELSE newDate(createdAt),
         taskCount |-> Param(d, "taskCount", Num(0))]

ProjectToJSONThrows(project) == toISOStringThrows(project.createdAt)

ProjectToJSON(project) == [project EXCEPT !.createdAt = toISOString(project.createdAt)]

ProjectFromJSONArgs(data) ==
    [f \in {"id", "name", "createdAt", "taskCount"} |->
        IF f = "taskCount" /\ Falsy(Prop(data, f)) THEN Num(0) ELSE Prop(data, f)]

ProjectFromJSONThrows(data) == ProjectThrows(ProjectFromJSONArgs(data))

ProjectFromJSON(data, u, t) == Project(ProjectFromJSONArgs(data), u, t)

ProjectValidate(data) == ~ProjectThrows(data)

-----------------------------------------------------------------------------
(* StorageService: typed collections, settings *)

\* the ids held by a stored or in-memory value (records and their checklist items)
RECURSIVE idsOf(_)
idsOf(data) ==
    IF ~IsArray(data) \/ data.array = <<>> THEN <<>>
    ELSE LET r == Head(data.array) IN
         <<Prop(r, "id")>>
         \o (IF DOMAIN Prop(r, "checklist") = {"array"}
             THEN idsOf(Prop(r, "checklist")) ELSE <<>>)
         \o idsOf([array |-> Tail(data.array)])

SetMax(S) == CHOOSE m \in S : \A x \in S : m >= x

\* index of the next uuid: uuidv4() never repeats an id that is in use
nextUuid(g) ==
    1 + SetMax({0}
               \cup {maxUuid(idsOf(IF g.ls[k] # Null /\ CanParse(g.ls[k])
                                   THEN JSONparse(g.ls[k]) ELSE Null)) : k \in DOMAIN g.ls}
               \cup {maxUuid(idsOf(g.fb[i].value)) : i \in 1..Len(g.fb)})

\* tasksData.forEach of loadTasks and repairData: the tasks that construct, in order,
\* and the number of records that do not
\* as tasksLoop without the try / catch around Task.fromJSON: one corrupted record
\* fails the whole load
tasksLoop_withoutCatch(items, tasks, dropped, u, t) ==
    IF \E i \in 1..Len(items) : TaskFromJSONThrows(items[i])
    THEN [tasks |-> <<>>, dropped |-> Len(items)]
    ELSE [tasks |-> [i \in 1..Len(items) |-> TaskFromJSON(items[i], u + i, t)],
          dropped |-> 0]

RECURSIVE tasksLoop(_, _, _, _, _)
tasksLoop(items, tasks, dropped, u, t) ==
    IF items = <<>> THEN [tasks |-> tasks, dropped |-> dropped]
    ELSE LET taskData == Head(items) IN
         IF TaskFromJSONThrows(taskData)
         THEN tasksLoop(Tail(items), tasks, dropped + 1, u, t)
         ELSE tasksLoop(Tail(items), Append(tasks, TaskFromJSON(taskData, u, t)),
                        dropped, u + uuidsDrawn(TaskFromJSONArgs(taskData)), t)

RECURSIVE projectsLoop(_, _, _, _, _)
projectsLoop(items, projects, dropped, u, t) ==
    IF items = <<>> THEN [projects |-> projects, dropped |-> dropped]
    ELSE LET projectData == Head(items) IN
         IF ProjectFromJSONThrows(projectData)
         THEN projectsLoop(Tail(items), projects, dropped + 1, u, t)
         ELSE projectsLoop(Tail(items),
                           Append(projects, ProjectFromJSON(projectData, u, t)), dropped,
                           IF Falsy(Prop(projectData, "id")) THEN u + 1 ELSE u, t)

\* loadTasks(): the Task instances, as a sequence
loadTasks(g, t) ==
    LET tasksData == load(g, keys.tasks).ret IN
    IF Falsy(tasksData) \/ ~IsArray(tasksData) THEN <<>>
    ELSE tasksLoop(tasksData.array, <<>>, 0, nextUuid(g), t).tasks

loadProjects(g, t) ==
    LET projectsData == load(g, keys.projects).ret IN
    IF Falsy(projectsData) \/ ~IsArray(projectsData) THEN <<>>
    ELSE projectsLoop(projectsData.array, <<>>, 0, nextUuid(g), t).projects

\* as saveTasks, but only the first task is written
saveTasks_firstOnly(g, tasks, o1, o2, ord) ==
    IF \E i \in 1..Len(tasks) : TaskToJSONThrows(tasks[i])
    THEN [g |-> g, threw |-> TRUE, ret |-> FALSE, access |-> FALSE, writes |-> {}]
    ELSE [threw |-> FALSE] @@
         save(g, keys.tasks,
              [array |-> [i \in 1..(IF Len(tasks) > 1 THEN 1 ELSE Len(tasks)) |->
                             TaskToJSON(tasks[i])]],
              o1, o2, ord)

\* saveTasks(tasks) for a sequence of Task instances: toJSON may throw, and then
\* nothing is saved
saveTasks(g, tasks, o1, o2, ord) ==
    IF \E i \in 1..Len(tasks) : TaskToJSONThrows(tasks[i])
    THEN [g |-> g, threw |-> TRUE, ret |-> FALSE, access |-> FALSE, writes |-> {}]
    ELSE [threw |-> FALSE] @@
         save(g, keys.tasks, [array |-> [i \in 1..Len(tasks) |-> TaskToJSON(tasks[i])]],
              o1, o2, ord)

saveProjects(g, projects, o1, o2, ord) ==
    IF \E i \in 1..Len(projects) : ProjectToJSONThrows(projects[i])
    THEN [g |-> g, threw |-> TRUE, ret |-> FALSE, access |-> FALSE, writes |-> {}]
    ELSE [threw |-> FALSE] @@
         save(g, keys.projects,
              [array |-> [i \in 1..Len(projects) |-> ProjectToJSON(projects[i])]],
              o1, o2, ord)

\* the settings of forceRecovery, repairData and loadSettings
defaultSettings(t) ==
    [currentProjectId |-> Lit("default"), theme |-> Lit("light"), lastAccessed |-> Iso(t)]

\* { currentProjectId: s.currentProjectId || 'default', ..., ...settings }: the spread
\* keeps every own property of settings, the defaults fill the absent ones
withDefaults(settings, t) ==
    [f \in DOMAIN defaultSettings(t) \cup DOMAIN settings |->
        IF f \in DOMAIN settings THEN settings[f] ELSE defaultSettings(t)[f]]

saveSettings(g, settings, o1, o2, ord, t) ==
    save(g, keys.settings, withDefaults(settings, t), o1, o2, ord)

loadSettings(g, t) ==
    LET settings == load(g, keys.settings).ret IN
    IF Falsy(settings) \/ ~IsObject(settings) THEN defaultSettings(t)
    ELSE withDefaults(settings, t)

-----------------------------------------------------------------------------
(* StorageService: integrity, migration, recovery *)

\* the indices of the loaded instances that Task.validate / Project.validate reject
invalidTasks(tasks) ==
    SelectSeq([i \in 1..Len(tasks) |-> i], LAMBDA i : ~TaskValidate(tasks[i]))

invalidProjects(projects) ==
    SelectSeq([i \in 1..Len(projects) |-> i], LAMBDA i : ~ProjectValidate(projects[i]))

\* validateDataIntegrity(): errors holds one entry per rejected instance (its index)
validateDataIntegrity(g, t) ==
    LET taskErrors == invalidTasks(loadTasks(g, t))
        projectErrors == invalidProjects(loadProjects(g, t))
        settings == loadSettings(g, t)
        settingsBad == Falsy(settings) \/ ~IsObject(settings)
    IN  [tasks |-> [valid |-> taskErrors = <<>>, errors |-> taskErrors],
         projects |-> [valid |-> projectErrors = <<>>, errors |-> projectErrors],
         settings |-> [valid |-> ~settingsBad,
                       errors |-> IF settingsBad THEN <<1>> ELSE <<>>]]

\* repairData(); wt and wp are what setItem does while the tasks and the projects are
\* saved again (first try, retry)
repairedTasks(g, t) ==
    LET tasksData == load(g, keys.tasks).ret IN
    IF IsArray(tasksData)
    THEN tasksLoop(tasksData.array, <<>>, 0, nextUuid(g), t)
    ELSE [tasks |-> <<>>, dropped |-> 0]

repairedProjects(g, t) ==
    LET projectsData == load(g, keys.projects).ret IN
    IF IsArray(projectsData)
    THEN projectsLoop(projectsData.array, <<>>, 0, nextUuid(g), t)
    ELSE [projects |-> <<>>, dropped |-> 0]

\* the tasks block of repairData: the collection is saved again when records were dropped
saveRepairedTasks(g, tl, wt, ord) ==
    IF tl.dropped > 0
    THEN LET st == saveTasks(g, tl.tasks, wt[1], wt[2], ord) IN
         [g |-> st.g, tasksRepaired |-> tl.dropped, savedTasks |-> ~st.threw,
          writes |-> st.writes]
    ELSE [g |-> g, tasksRepaired |-> 0, savedTasks |-> FALSE, writes |-> {}]

\* the projects block of repairData, r the outcome of the tasks block
saveRepairedProjects(r, pl, wp, ord) ==
    IF pl.dropped > 0
    THEN LET sp == saveProjects(r.g, pl.projects, wp[1], wp[2], ord) IN
         [r EXCEPT !.g = sp.g, !.writes = @ \cup sp.writes] @@
         [projectsRepaired |-> pl.dropped, savedProjects |-> ~sp.threw]
    ELSE r @@ [projectsRepaired |-> 0, savedProjects |-> FALSE]

\* the settings block of repairData, r the outcome of the blocks before it
saveRepairedSettings(r, settings, wp, ord, t) ==
    IF Falsy(settings) \/ ~IsObject(settings)
    THEN LET ss == saveSettings(r.g, defaultSettings(t), wp[1], wp[2], ord, t) IN
         [r EXCEPT !.g = ss.g, !.writes = @ \cup ss.writes] @@ [settingsRepaired |-> TRUE]
    ELSE r @@ [settingsRepaired |-> FALSE]

repairTasks(g, wt, ord, t) == saveRepairedTasks(g, repairedTasks(g, t), wt, ord)

repairProjects(r, wp, ord, t) == saveRepairedProjects(r, repairedProjects(r.g, t), wp, ord)

repairSettings(r, wp, ord, t) == saveRepairedSettings(r, loadSettings(r.g, t), wp, ord, t)

repairReport(r) ==
    [g |-> r.g,
     ret |-> [tasksRepaired |-> r.tasksRepaired, projectsRepaired |-> r.projectsRepaired,
              settingsRepaired |-> r.settingsRepaired],
     savedTasks |-> r.savedTasks, savedProjects |-> r.savedProjects, writes |-> r.writes]

repairData(g, wt, wp, ord, t) ==
    repairReport(repairSettings(repairProjects(repairTasks(g, wt, ord, t), wp, ord, t),
                                wp, ord, t))

\* as validateDataIntegrityLeaves, but the records found corrupted are stripped from
\* the stored collections
validateDataIntegrity_strips(g, t) ==
    repairData(g, <<"ok", "ok">>, <<"ok", "ok">>, <<>>, t).g

\* the gateway validateDataIntegrity() leaves behind: it calls loadTasks, loadProjects
\* and loadSettings only, which read through load() and assign no field
validateDataIntegrityLeaves(g, t) == g

\* the loop of migrateBackToLocalStorage over the fallback keys; outcome[key] is what
\* setItem does for that key. `written` and `tried` record the keys written and the
\* outcomes met.
RECURSIVE migrateBackLoop(_, _, _, _, _)
migrateBackLoop(ls, fb, fallbackKeys, acc, outcome) ==
    IF fallbackKeys = <<>>
    THEN [ls |-> ls, migratedCount |-> acc.migratedCount, quota |-> FALSE,
          written |-> acc.written, tried |-> acc.tried]
    ELSE LET key == Head(fallbackKeys)
             tried == acc.tried \cup {outcome[key]}
         IN
         IF outcome[key] = "ok"
         THEN migrateBackLoop([ls EXCEPT ![key] = JSONstringify(MapGet(fb, key))], fb,
                              Tail(fallbackKeys),
                              [migratedCount |-> acc.migratedCount + 1,
                               written |-> acc.written \cup {key}, tried |-> tried],
                              outcome)
         ELSE IF outcome[key] = "quota"
              THEN [ls |-> ls, migratedCount |-> acc.migratedCount, quota |-> TRUE,
                    written |-> acc.written, tried |-> tried]
              ELSE migrateBackLoop(ls, fb, Tail(fallbackKeys),
                                   [acc EXCEPT !.tried = tried], outcome)

\* as migrateBackToLocalStorage, but a quota error undoes the writes already made
migrateBackToLocalStorage_rollsBack(g, outcome) ==
    LET r == IF ~g.isAvailable \/ g.quotaExceeded \/ ~g.usingFallback
             THEN [quota |-> FALSE, migratedCount |-> 0, ls |-> g.ls, written |-> {},
                   tried |-> {}]
             ELSE migrateBackLoop(g.ls, g.fb, SelectSeq(MapKeys(g.fb), startsWithPrefix),
                                  [migratedCount |-> 0, written |-> {}, tried |-> {}],
                                  outcome)
        all == g.isAvailable /\ ~g.quotaExceeded /\ g.usingFallback /\ ~r.quota
               /\ r.migratedCount = Len(SelectSeq(MapKeys(g.fb), startsWithPrefix))
    IN  [g |-> IF all
               THEN [g EXCEPT !.ls = r.ls, !.usingFallback = FALSE, !.fb = <<>>]
               ELSE IF r.quota THEN g ELSE [g EXCEPT !.ls = r.ls],
         ret |-> all, quota |-> r.quota, written |-> r.written, writes |-> r.tried]

migrateBackToLocalStorage(g, outcome) ==
    IF ~g.isAvailable \/ g.quotaExceeded \/ ~g.usingFallback
    THEN [g |-> g, ret |-> FALSE, quota |-> FALSE, written |-> {}, writes |-> {}]
    ELSE LET fallbackKeys == SelectSeq(MapKeys(g.fb), startsWithPrefix)
             done == migrateBackLoop(g.ls, g.fb, fallbackKeys,
                                     [migratedCount |-> 0, written |-> {}, tried |-> {}],
                                     outcome)
             all == ~done.quota /\ done.migratedCount = Len(fallbackKeys)
         IN  [g |-> IF all
                    THEN [g EXCEPT !.ls = done.ls, !.usingFallback = FALSE, !.fb = <<>>]
                    ELSE [g EXCEPT !.ls = done.ls],
              ret |-> all, quota |-> done.quota, written |-> done.written,
              writes |-> done.tried]

\* as forceRecovery, but the fallback map is left as it is
forceRecovery_keepsFallback(g, o1, o2, ord, t) ==
    LET cleared ==
            [g EXCEPT
               !.ls = IF g.isAvailable
                      THEN [k \in DOMAIN g.ls |->
                               IF startsWithPrefix(k) THEN Null ELSE g.ls[k]]
                      ELSE g.ls,
               !.usingFallback = FALSE,
               !.quotaExceeded = FALSE]
        s == saveSettings(cleared, defaultSettings(t), o1, o2, ord, t)
    IN  [g |-> s.g,
         ret |-> [localStorageCleared |-> g.isAvailable, fallbackCleared |-> TRUE,
                  defaultsRestored |-> TRUE],
         writes |-> s.writes]

\* forceRecovery(); o1, o2 are what setItem does while the default settings are saved
\* (the store then holds no key of the namespace, or is not consulted: ord is empty)
forceRecovery(g, o1, o2, ord, t) ==
    LET cleared ==
            [g EXCEPT
               !.ls = IF g.isAvailable
                      THEN [k \in DOMAIN g.ls |->
                               IF startsWithPrefix(k) THEN Null ELSE g.ls[k]]
                      ELSE g.ls,
               !.fb = SelectSeq(g.fb, LAMBDA e : ~startsWithPrefix(e.key)),
               !.usingFallback = FALSE,
               !.quotaExceeded = FALSE]
        s == saveSettings(cleared, defaultSettings(t), o1, o2, ord, t)
    IN  [g |-> s.g,
         ret |-> [localStorageCleared |-> g.isAvailable, fallbackCleared |-> TRUE,
                  defaultsRestored |-> TRUE],
         writes |-> s.writes]

-----------------------------------------------------------------------------
(* The gateway under arbitrary calls and arbitrary write failures *)

\* the permutations of a set of keys: the orders in which the store may list them
Perms(S) == {o \in [1..Cardinality(S) -> S] : \A i, j \in DOMAIN o : i # j => o[i] # o[j]}

KeyOrders == Perms({k \in FullKeys : localStorage[k] # Null})

\* what setItem does on the first try and on the retry that follows a quota error
WritePlans == {<<"ok", "ok">>, <<"error", "ok">>, <<"quota", "ok">>,
               <<"quota", "quota">>, <<"quota", "error">>}

\* the keys callers pass: bare names, and one already carrying the prefix
InputKeys == {<<"tasks">>, <<"settings">>, <<prefix, "settings">>}

\* two structured values of different serialized length
SaveValues == {[test |-> Lit("value")], [test |-> Lit("data"), more |-> Lit("x")]}

notJson == Str(<<"n", "o", "t", "-", "j", "s", "o", "n">>)

\* the store as the constructor may find it
InitialStores ==
    {[k \in FullKeys |->
        IF k = keys.tasks THEN a
        ELSE IF k = keys.settings THEN b
        ELSE IF k = <<prefix, "test">> THEN c
        ELSE Null] :
     a \in {Null, JSONstringify([test |-> Lit("value")])},
     b \in {Null, JSONstringify([test |-> Lit("data"), more |-> Lit("x")])},
     c \in {Null, notJson}}

\* new ProjectService(), new TaskService()
ProjectServiceConstructed == [_projects |-> <<>>, _initialized |-> FALSE]

TaskServiceConstructed == [_tasks |-> <<>>, _initialized |-> FALSE]

NothingSaved == [k \in FullKeys |-> Undefined]

Init ==
    /\ localStorage \in InitialStores
    /\ _fallbackStorage = <<>>
    /\ _isAvailable \in BOOLEAN
    /\ _quotaExceeded = FALSE
    /\ _usingFallback = FALSE
    /\ now = 1
    /\ call = [op |-> "constructor"]
    /\ lastSaved = NothingSaved
    /\ writeLog = {}
    /\ projectService = ProjectServiceConstructed
    /\ taskService = TaskServiceConstructed

\* the gateway's fields after an operation
Becomes(g) ==
    /\ localStorage' = g.ls
    /\ _fallbackStorage' = g.fb
    /\ _isAvailable' = g.isAvailable
    /\ _quotaExceeded' = g.quotaExceeded
    /\ _usingFallback' = g.usingFallback

Save(key, data, w, ord) ==
    LET r == save(Gateway, key, data, w[1], w[2], ord) IN
    /\ Becomes(r.g)
    /\ call' = [op |-> "save", ret |-> r.ret, access |-> r.access]
    /\ lastSaved' = IF r.ret THEN [lastSaved EXCEPT ![FullKey(key)] = data] ELSE lastSaved
    /\ writeLog' = writeLog \cup r.writes
    /\ UNCHANGED now
    /\ UNCHANGED services

Load(key) ==
    LET r == load(Gateway, key) IN
    /\ call' = [op |-> "load", access |-> r.access]
    /\ UNCHANGED <<localStorage, _fallbackStorage, _isAvailable, _quotaExceeded,
                   _usingFallback, now, lastSaved, writeLog>>
    /\ UNCHANGED services

Remove(key) ==
    LET r == remove(Gateway, key) IN
    /\ Becomes(r.g)
    /\ call' = [op |-> "remove", ret |-> r.ret, access |-> r.access]
    /\ lastSaved' = [lastSaved EXCEPT ![FullKey(key)] = Undefined]
    /\ UNCHANGED <<now, writeLog>>
    /\ UNCHANGED services

Clear ==
    LET r == clear(Gateway) IN
    /\ Becomes(r.g)
    /\ call' = [op |-> "clear", ret |-> r.ret, access |-> r.access]
    /\ lastSaved' = NothingSaved
    /\ UNCHANGED <<now, writeLog>>
    /\ UNCHANGED services

MigrateBack(outcome) ==
    LET r == migrateBackToLocalStorage(Gateway, outcome) IN
    /\ Becomes(r.g)
    /\ call' = [op |-> "migrateBackToLocalStorage", ret |-> r.ret, quota |-> r.quota,
                written |-> r.written, allOk |-> \A k \in FullKeys : outcome[k] = "ok"]
    /\ writeLog' = writeLog \cup r.writes
    /\ UNCHANGED <<now, lastSaved>>
    /\ UNCHANGED services

ForceRecovery(w, ord) ==
    LET r == forceRecovery(Gateway, w[1], w[2], ord, now) IN
    /\ Becomes(r.g)
    /\ call' = [op |-> "forceRecovery", ret |-> r.ret, wrote |-> r.writes]
    /\ lastSaved' = [NothingSaved EXCEPT ![keys.settings] = defaultSettings(now)]
    /\ writeLog' = writeLog \cup r.writes
    /\ UNCHANGED now
    /\ UNCHANGED services

\* setItem is reached only when the store is available and not bypassed, and the
\* store's keys are listed only after a failed write: elsewhere one choice stands
\* for all
PlansIf(writes) == IF writes THEN WritePlans ELSE {<<"ok", "ok">>}

OrdersIf(w) == IF w[1] # "ok" THEN KeyOrders ELSE {<<>>}

\* what setItem does per key during a migration back: only the fallback keys are
\* written
MigrationOutcomes ==
    LET written == IF _isAvailable /\ ~_quotaExceeded /\ _usingFallback
                   THEN {k \in FullKeys : MapHas(_fallbackStorage, k)} ELSE {}
    IN  {[k \in FullKeys |-> IF k \in written THEN f[k] ELSE "ok"] :
            f \in [written -> Outcomes]}

Next ==
    \/ \E key \in InputKeys, data \in SaveValues :
          \E w \in PlansIf(_isAvailable /\ ~_usingFallback) : \E ord \in OrdersIf(w) :
             Save(key, data, w, ord)
    \/ \E key \in InputKeys : Load(key)
    \/ \E key \in InputKeys : Remove(key)
    \/ Clear
    \/ \E outcome \in MigrationOutcomes : MigrateBack(outcome)
    \/ \E w \in PlansIf(_isAvailable) : ForceRecovery(w, <<>>)

Spec == Init /\ [][Next]_vars

-----------------------------------------------------------------------------
(* Claims about the gateway *)

\* what load(k) returns in the current state
Loaded(k) == load(Gateway, k).ret

\* C1: as long as every write to the store has thrown a quota error, every save
\* returns true and load(k) returns the value last saved under k (no save, remove
\* or clear of k since).
C1_QuotaFallbackKeepsSaved ==
    writeLog \subseteq {"quota"} =>
        /\ call.op = "save" => call.ret
        /\ \A k \in FullKeys : lastSaved[k] # Undefined => Loaded(k) = lastSaved[k]

\* a save went to the fallback map after its write and its retry threw quota errors
C1_Witness ==
    /\ writeLog = {"quota"} /\ _isAvailable /\ _usingFallback /\ _quotaExceeded
    /\ call.op = "save" /\ call.access
    /\ \E k \in FullKeys : lastSaved[k] # Undefined /\ MapHas(_fallbackStorage, k)

C3_FallbackSticky ==
    [][_usingFallback =>
          /\ call'.op \in {"save", "load"} => ~call'.access /\ localStorage' = localStorage
          /\ ~_usingFallback' =>
                \/ call'.op = "migrateBackToLocalStorage" /\ call'.ret
                \/ call'.op = "forceRecovery"]_vars

\* a save made while in Fallback, with the store available
C3_Witness ==
    /\ _isAvailable /\ _usingFallback /\ call.op = "save" /\ ~call.access

\* C4 as stated: in Fallback, with the store available and accepting every write,
\* migrateBackToLocalStorage() returns true, leaves Fallback, and every key of the
\* fallback map loads with the value it had; also after a quota-triggered Fallback.
C4_MigrateBackSucceeds ==
    [][(_usingFallback /\ _isAvailable /\ call'.op = "migrateBackToLocalStorage"
         /\ call'.allOk) =>
          /\ call'.ret
          /\ ~_usingFallback'
          /\ \A i \in 1..Len(_fallbackStorage) :
                load(Gateway', _fallbackStorage[i].key).ret = _fallbackStorage[i].value
      ]_vars

\* C5: when a write of migrateBackToLocalStorage() throws a quota error, the call
\* returns false, the gateway stays in Fallback, the fallback map is unchanged, and
\* the entries written before the error stay in the store.
C5_MigrateBackQuotaAbort ==
    [][(call'.op = "migrateBackToLocalStorage" /\ call'.quota) =>
          /\ ~call'.ret
          /\ _usingFallback'
          /\ _fallbackStorage' = _fallbackStorage
          /\ \A k \in FullKeys :
                localStorage'[k] = IF k \in call'.written
                                   THEN JSONstringify(MapGet(_fallbackStorage, k))
                                   ELSE localStorage[k]
      ]_vars

\* a migration that wrote an entry and then hit a quota error
C5_Witness ==
    /\ call.op = "migrateBackToLocalStorage" /\ call.quota /\ call.written # {}
    /\ \E k \in call.written :
          localStorage[k] = JSONstringify(MapGet(_fallbackStorage, k))

\* the namespaced keys the store and the fallback map hold
StoreKeys == {k \in FullKeys : localStorage[k] # Null}

FallbackKeys == {k \in FullKeys : MapHas(_fallbackStorage, k)}

\* C6 as stated: after forceRecovery() both flags are false and neither the store nor
\* the fallback map holds a namespaced key other than the settings key with the
\* default settings, however the store's writes behave during the call.
C6_RecoveryResetsAll ==
    call.op = "forceRecovery" =>
        /\ ~_usingFallback /\ ~_quotaExceeded
        /\ StoreKeys \subseteq {keys.settings}
        /\ FallbackKeys \subseteq {keys.settings}
        /\ Loaded(keys.settings) = defaultSettings(now)

\* C6 amended: after forceRecovery() the fallback map, and the store when it is
\* available, hold no namespaced key other than the settings key, and the default
\* settings load; both flags are false when the store took the settings write or is
\* unavailable; when that write throws, the gateway is in Fallback again, with
\* isQuotaExceeded() true exactly for a quota error.
C6_RecoveryResetsUnlessWriteFails ==
    call.op = "forceRecovery" =>
        /\ FallbackKeys \subseteq {keys.settings}
        /\ _isAvailable => StoreKeys \subseteq {keys.settings}
        /\ Loaded(keys.settings) = defaultSettings(now)
        /\ _usingFallback = (call.wrote \cap {"quota", "error"} # {})
        /\ _quotaExceeded = ("quota" \in call.wrote)

\* forceRecovery() whose settings write was taken by the store
C6_Witness ==
    /\ call.op = "forceRecovery" /\ call.wrote = {"ok"}
    /\ localStorage[keys.settings] = JSONstringify(defaultSettings(now))
    /\ ~_usingFallback /\ ~_quotaExceeded

\* C7: when the probe failed at construction the flag never changes: every later
\* save returns true and stores its value in memory, load returns the last saved
\* value, and no operation touches the store.
C7_UnavailableStaysInMemory ==
    [][~_isAvailable =>
          /\ ~_isAvailable'
          /\ localStorage' = localStorage
          /\ call'.op \in {"save", "load"} => ~call'.access
          /\ call'.op = "save" => call'.ret
          /\ \A k \in FullKeys : lastSaved'[k] # Undefined =>
                /\ load(Gateway', k).ret = lastSaved'[k]
                /\ MapGet(_fallbackStorage', k) = lastSaved'[k]
      ]_vars

\* a save held in memory only, the store having been found unavailable
C7_Witness ==
    /\ ~_isAvailable /\ call.op = "save" /\ call.ret /\ ~call.access
    /\ \E k \in FullKeys : lastSaved[k] # Undefined /\ localStorage[k] = Null

-----------------------------------------------------------------------------
(* The integrity operations over stored collections *)

\* task records as a store may hold them
StoredTaskRecords ==
    { [title |-> Str(<<"A">>)],
      [id |-> Lit("t1"), title |-> Str(<<" ", "B">>), description |-> Str(<<"d">>),
       dueDate |-> Iso(1), priority |-> Lit("high"), notes |-> Str(<<>>),
       checklist |-> [array |-> <<[text |-> Str(<<"x">>), completed |-> Bool(FALSE)]>>],
       completed |-> Bool(TRUE), projectId |-> Lit("p1"),
       createdAt |-> Iso(1), updatedAt |-> Iso(1)],
      [id |-> Lit("t2")],
      [id |-> Lit("t3"), title |-> Str(<<"C">>), priority |-> Lit("urgent")],
      [id |-> Lit("t4"), title |-> Str(<<"D">>),
       dueDate |-> Str(<<"i", "n", "v", "a", "l", "i", "d">>)],
      [id |-> Lit("t5"), title |-> Str(<<"E">>),
       checklist |-> [array |-> <<[text |-> Str(<<" ">>), completed |-> Bool(FALSE)]>>]] }

StoredProjectRecords ==
    { [id |-> Lit("p1"), name |-> Str(<<"W">>), createdAt |-> Iso(1), taskCount |-> Num(2)],
      [name |-> Str(<<" ", "V">>)],
      [id |-> Lit("p2")] }

SeqsUpTo(S, n) == UNION {[1..m -> S] : m \in 0..n}

StoredCollections(S) ==
    {Null, notJson} \cup {JSONstringify([array |-> c]) : c \in SeqsUpTo(S, MaxStored)}

InitIntegrity ==
    /\ \E tasks \in StoredCollections(StoredTaskRecords) \cup
                    {JSONstringify([test |-> Lit("value")])},
          projects \in StoredCollections(StoredProjectRecords) :
          localStorage = [k \in FullKeys |->
                             IF k = keys.tasks THEN tasks
                             ELSE IF k = keys.projects THEN projects
                             ELSE Null]
    /\ _fallbackStorage = <<>>
    /\ _isAvailable = TRUE
    /\ _quotaExceeded = FALSE
    /\ _usingFallback = FALSE
    /\ now = 1
    /\ call = [op |-> "constructor"]
    /\ lastSaved = NothingSaved
    /\ writeLog = {}
    /\ projectService = ProjectServiceConstructed
    /\ taskService = TaskServiceConstructed

LoadTasks ==
    /\ call' = [op |-> "loadTasks", ret |-> loadTasks(Gateway, now)]
    /\ UNCHANGED <<localStorage, _fallbackStorage, _isAvailable, _quotaExceeded,
                   _usingFallback, now, lastSaved, writeLog>>
    /\ UNCHANGED services

LoadProjects ==
    /\ call' = [op |-> "loadProjects", ret |-> loadProjects(Gateway, now)]
    /\ UNCHANGED <<localStorage, _fallbackStorage, _isAvailable, _quotaExceeded,
                   _usingFallback, now, lastSaved, writeLog>>
    /\ UNCHANGED services

ValidateDataIntegrity ==
    /\ call' = [op |-> "validateDataIntegrity", ret |-> validateDataIntegrity(Gateway, now)]
    /\ Becomes(validateDataIntegrityLeaves(Gateway, now))
    /\ UNCHANGED <<now, lastSaved, writeLog>>
    /\ UNCHANGED services

RepairData(wt, wp, ord) ==
    LET r == repairData(Gateway, wt, wp, ord, now) IN
    /\ Becomes(r.g)
    /\ call' = [op |-> "repairData", ret |-> r.ret]
    /\ lastSaved' =
          [k \in FullKeys |->
              IF k = keys.tasks /\ r.savedTasks THEN load(r.g, keys.tasks).ret
              ELSE IF k = keys.projects /\ r.savedProjects
                   THEN load(r.g, keys.projects).ret
                   ELSE lastSaved[k]]
    /\ writeLog' = writeLog \cup r.writes
    /\ UNCHANGED now
    /\ UNCHANGED services

\* what repairData() would report now: the collections it will save again
Repairs == repairData(Gateway, <<"ok", "ok">>, <<"ok", "ok">>, <<>>, now).ret

NextIntegrity ==
    \/ LoadTasks
    \/ LoadProjects
    \/ ValidateDataIntegrity
    \/ \E wt \in PlansIf(storeUsable(Gateway) /\ Repairs.tasksRepaired > 0),
          wp \in PlansIf(storeUsable(Gateway) /\ Repairs.projectsRepaired > 0) :
          \E ord \in IF wt[1] # "ok" \/ wp[1] # "ok" THEN KeyOrders ELSE {<<>>} :
             RepairData(wt, wp, ord)

SpecIntegrity == InitIntegrity /\ [][NextIntegrity]_vars

-----------------------------------------------------------------------------
(* Claims about loading, validating and repairing the collections *)

\* the records of a loaded collection (none when the value is no array)
Records(data) == IF IsArray(data) THEN data.array ELSE <<>>

\* the stored records that construct, in stored order
ConstructingTasks(data) == SelectSeq(Records(data), LAMBDA d : ~TaskFromJSONThrows(d))

ConstructingProjects(data) == SelectSeq(Records(data), LAMBDA d : ~ProjectFromJSONThrows(d))

\* how many stored records fail construction
FailingTasks(data) == Len(Records(data)) - Len(ConstructingTasks(data))

FailingProjects(data) == Len(Records(data)) - Len(ConstructingProjects(data))

\* the instance was constructed from the stored record: the title trimmed, the stored
\* id kept
BuiltFrom(task, d) ==
    /\ task.title = trim(d.title)
    /\ "id" \in DOMAIN d => task.id = d.id

\* two stored records of the same task: the title up to trimming, the stored id kept
SameRecord(a, d) ==
    /\ trim(a.title) = trim(d.title)
    /\ "id" \in DOMAIN d => a.id = d.id

\* C8: loadTasks() on a stored collection that mixes valid and invalid records returns
\* exactly the records that construct, in their stored order, and does not fail: each
\* invalid record is dropped and the rest are kept.
C8_LoadTasksKeepsConstructing ==
    call.op = "loadTasks" =>
        LET kept == ConstructingTasks(Loaded(keys.tasks)) IN
        /\ Len(call.ret) = Len(kept)
        /\ \A i \in 1..Len(kept) : BuiltFrom(call.ret[i], kept[i])

\* C8 witness: a stored collection of an invalid record followed by a valid one was
\* loaded and the one task came back.
C8_Witness ==
    /\ call.op = "loadTasks"
    /\ IsArray(Loaded(keys.tasks))
    /\ Len(Loaded(keys.tasks).array) = 2
    /\ TaskFromJSONThrows(Loaded(keys.tasks).array[1])
    /\ ~TaskFromJSONThrows(Loaded(keys.tasks).array[2])
    /\ Len(call.ret) = 1

\* C9: validateDataIntegrity() detects corruption: whenever the stored task collection
\* contains at least one record that fails Task validation, the result has tasks.valid
\* false and at least one entry in tasks.errors, and likewise for projects.
C9_ValidateDetectsCorruption ==
    call.op = "validateDataIntegrity" =>
        /\ (\E i \in 1..Len(Records(Loaded(keys.tasks))) :
               ~TaskValidate(Records(Loaded(keys.tasks))[i])) =>
              ~call.ret.tasks.valid /\ Len(call.ret.tasks.errors) >= 1
        /\ (\E i \in 1..Len(Records(Loaded(keys.projects))) :
               ~ProjectValidate(Records(Loaded(keys.projects))[i])) =>
              ~call.ret.projects.valid /\ Len(call.ret.projects.errors) >= 1

\* C10: repairData() returns as tasksRepaired and projectsRepaired the number of stored
\* records that fail construction; afterwards the stored collection holds exactly the
\* records that construct, in their original order; and an immediately repeated
\* repairData() reports 0 repaired of each type.
C10_RepairDataExactAndIdempotent ==
    [][call'.op = "repairData" =>
          LET tasksBefore == Loaded(keys.tasks)
              projectsBefore == Loaded(keys.projects)
              tasksAfter == load(Gateway, keys.tasks).ret'
              projectsAfter == load(Gateway, keys.projects).ret'
              keptTasks == ConstructingTasks(tasksBefore)
              keptProjects == ConstructingProjects(projectsBefore)
          IN  /\ call'.ret.tasksRepaired = FailingTasks(tasksBefore)
              /\ call'.ret.projectsRepaired = FailingProjects(projectsBefore)
              /\ IsArray(tasksBefore) =>
                    /\ IsArray(tasksAfter)
                    /\ Len(tasksAfter.array) = Len(keptTasks)
                    /\ \A i \in 1..Len(keptTasks) :
                          SameRecord(tasksAfter.array[i], keptTasks[i])
                    /\ FailingTasks(tasksAfter) = 0
              /\ IsArray(projectsBefore) =>
                    /\ IsArray(projectsAfter)
                    /\ Len(projectsAfter.array) = Len(keptProjects)
                    /\ FailingProjects(projectsAfter) = 0
              /\ call.op = "repairData" =>
                    call'.ret.tasksRepaired = 0 /\ call'.ret.projectsRepaired = 0
      ]_vars


-----------------------------------------------------------------------------
(* Validation: the shared sanitizing and validation rules *)

upperCase ==
    <<"A", "B", "C", "D", "E", "F", "G", "H", "I", "J", "K", "L", "M",
      "N", "O", "P", "Q", "R", "S", "T", "U", "V", "W", "X", "Y", "Z">>

lowerCase ==
    <<"a", "b", "c", "d", "e", "f", "g", "h", "i", "j", "k", "l", "m",
      "n", "o", "p", "q", "r", "s", "t", "u", "v", "w", "x", "y", "z">>

lowerChar(c) ==
    IF \E i \in DOMAIN upperCase : upperCase[i] = c
    THEN lowerCase[CHOOSE i \in DOMAIN upperCase : upperCase[i] = c]
    ELSE c

\* String.prototype.toLowerCase (ids and enum values are written in lower case)
toLowerCase(x) ==
    IF DOMAIN x = {"str"} THEN Str([i \in 1..Len(x.str) |-> lowerChar(x.str[i])]) ELSE x

\* the characters of a string value
chars(x) == IF DOMAIN x = {"str"} THEN x.str ELSE <<x>>

\* Validation.sanitizeText(text, maxLength): trimmed, then < and > removed, then cut to
\* maxLength (0 for no limit); '' for anything that is no string
sanitizeText(text, maxLength) ==
    IF ~IsString(text) THEN Str(<<>>)
    ELSE IF DOMAIN text # {"str"} THEN text
    ELSE LET sanitized == SelectSeq(trim(text).str, LAMBDA c : c \notin {"<", ">"}) IN
         IF maxLength > 0 /\ Len(sanitized) > maxLength
         THEN Str(SubSeq(sanitized, 1, maxLength))
         ELSE Str(sanitized)

\* Validation.validateRequired(value)
validateRequired(value) ==
    LET sanitized == sanitizeText(value, 0) IN
    [valid |-> ~Falsy(sanitized), value |-> sanitized]

\* Validation.validateLength(value, minLength, maxLength)
validateLength(value, minLength, maxLength) ==
    LET sanitized == sanitizeText(value, 0) IN
    [valid |-> ~(Len(chars(sanitized)) < minLength)
               /\ ~(maxLength > 0 /\ Len(chars(sanitized)) > maxLength),
     value |-> sanitized]

\* Validation.validateProjectData(projectData): valid, and the validated data
validateProjectData(projectData) ==
    LET nameValidation == validateRequired(Prop(projectData, "name"))
        lengthValidation == validateLength(nameValidation.value, 1, 100)
        nameOk == nameValidation.valid /\ lengthValidation.valid
        taskCount == Prop(projectData, "taskCount")
        countGiven == taskCount # Undefined
        countOk == DOMAIN taskCount = {"num"} /\ taskCount.num >= 0
    IN  [valid |-> nameOk /\ (countGiven => countOk),
         data |-> (IF nameOk THEN [name |-> lengthValidation.value] ELSE <<>>)
                  @@ (IF countGiven /\ countOk THEN [taskCount |-> taskCount] ELSE <<>>)]

-----------------------------------------------------------------------------
(* Project: update and the default project *)

\* project.update(updates): the project afterwards and whether the call threw. The
\* name is checked and assigned before the taskCount is looked at.
ProjectUpdate(project, updates) ==
    LET name == Prop(updates, "name")
        taskCount == Prop(updates, "taskCount")
        nameThrows == name # Undefined
                      /\ (Falsy(name) \/ ~IsString(name) \/ trim(name) = Str(<<>>))
        named == IF name # Undefined THEN [project EXCEPT !.name = trim(name)]
                 ELSE project
        countThrows == taskCount # Undefined
                       /\ (DOMAIN taskCount # {"num"} \/ taskCount.num < 0)
    IN  IF nameThrows THEN [project |-> project, threw |-> TRUE]
        ELSE IF countThrows THEN [project |-> named, threw |-> TRUE]
        ELSE [project |-> IF taskCount # Undefined
                          THEN [named EXCEPT !.taskCount = taskCount] ELSE named,
              threw |-> FALSE]

\* Project.createDefault()
createDefault(t) ==
    Project([id |-> Lit("default"),
             name |-> Str(<<"A", "l", "l", " ", "T", "a", "s", "k", "s">>),
             createdAt |-> Date(t), taskCount |-> Num(0)], 0, t)

-----------------------------------------------------------------------------
(* ProjectService. An operation takes the gateway g and the service record svc and   *)
(* gives both back, with threw (the promise rejected) and the store writes made;     *)
(* wi is what setItem does while initialize() saves, w while the operation saves.    *)

hasDefault(projects) == \E i \in 1..Len(projects) : projects[i].id = Lit("default")

\* the uuids in use: those of the instances held and of every stored record
usedUuids(g, instances) ==
    LET stored(v) == idsOf(IF v # Null /\ CanParse(v) THEN JSONparse(v) ELSE Null)
        held == {instances[i].id : i \in 1..Len(instances)}
               \cup UNION {{stored(g.ls[k])[i] : i \in 1..Len(stored(g.ls[k]))} :
                            k \in DOMAIN g.ls}
               \cup UNION {{idsOf(g.fb[j].value)[i] : i \in 1..Len(idsOf(g.fb[j].value))} :
                            j \in 1..Len(g.fb)}
    IN  {id.uuid : id \in {x \in held : DOMAIN x = {"uuid"}}}

\* uuidv4() yields an id that is not in use: the first index no instance and no stored
\* record carries
freshUuid(g, instances) ==
    CHOOSE n \in 1..(Cardinality(usedUuids(g, instances)) + 1) :
        /\ n \notin usedUuids(g, instances)
        /\ \A m \in 1..(n - 1) : m \in usedUuids(g, instances)

\* _saveProjects()
_saveProjects(g, svc, w, ord) ==
    LET r == saveProjects(g, svc._projects, w[1], w[2], ord) IN
    [g |-> r.g, svc |-> svc, threw |-> r.threw, writes |-> r.writes]

\* _createDefaultProject(): the default project goes to the front before the save
_createDefaultProject(g, svc, w, ord, t) ==
    _saveProjects(g, [svc EXCEPT !._projects = <<createDefault(t)>> \o @], w, ord)

\* as _ensureDefaultProject, but a missing default project is not created
_ensureDefaultProject_createsNothing(g, svc, w, ord, t) ==
    [g |-> g, svc |-> svc, threw |-> FALSE, writes |-> {}]

\* _ensureDefaultProject()
_ensureDefaultProject(g, svc, w, ord, t) ==
    IF hasDefault(svc._projects)
    THEN [g |-> g, svc |-> svc, threw |-> FALSE, writes |-> {}]
    ELSE _createDefaultProject(g, svc, w, ord, t)

\* the catch block of initialize(): start from an empty list, and a failure to
\* create the default project is logged only
initializeAgain(g, svc, w, ord, t) ==
    LET r == _ensureDefaultProject(g, [svc EXCEPT !._projects = <<>>], w, ord, t) IN
    [g |-> r.g, svc |-> [r.svc EXCEPT !._initialized = TRUE], threw |-> FALSE,
     writes |-> r.writes]

\* the try block of initialize()
initializeFirst(g, svc, w, ord, t) ==
    _ensureDefaultProject(g, [svc EXCEPT !._projects = loadProjects(g, t)], w, ord, t)

initializeOutcome(g, svc, r, w, ord, t) ==
    IF r.threw THEN initializeAgain(r.g, r.svc, w, ord, t)
    ELSE [g |-> r.g, svc |-> [r.svc EXCEPT !._initialized = TRUE], threw |-> FALSE,
          writes |-> r.writes]

\* initialize(), which every operation awaits first through _ensureInitialized()
initializeProjects(g, svc, w, ord, t) ==
    IF svc._initialized THEN [g |-> g, svc |-> svc, threw |-> FALSE, writes |-> {}]
    ELSE initializeOutcome(g, svc, initializeFirst(g, svc, w, ord, t), w, ord, t)

\* the operation rejected in state r, having changed nothing more
rejects(r) == [r EXCEPT !.threw = TRUE]

\* the outcome r of a later step, with the writes made before it
after(r, writes) == [r EXCEPT !.writes = @ \cup writes]

\* this._projects.find(p => p.name.toLowerCase() === name.toLowerCase()), leaving
\* out the project with id except
nameTaken(projects, name, except) ==
    \E i \in 1..Len(projects) :
        /\ projects[i].id # except
        /\ toLowerCase(projects[i].name) = toLowerCase(name)

\* createProject(name) once the service is initialized (state r)
createProjectIn(r, name, w, ord, t) ==
    LET validation == validateProjectData([name |-> name]) IN
    IF Falsy(name) \/ ~IsString(name) \/ trim(name) = Str(<<>>) THEN rejects(r)
    ELSE IF ~validation.valid THEN rejects(r)
    ELSE IF nameTaken(r.svc._projects, validation.data.name, Undefined) THEN rejects(r)
    ELSE IF ProjectThrows(validation.data) THEN rejects(r)
    ELSE after(_saveProjects(r.g,
                             [r.svc EXCEPT !._projects =
                                 Append(@, Project(validation.data,
                                                   freshUuid(r.g, r.svc._projects), t))],
                             w, ord),
               r.writes)

createProject(g, svc, name, wi, w, ord, t) ==
    createProjectIn(initializeProjects(g, svc, wi, ord, t), name, w, ord, t)

\* this._projects.findIndex(p => p.id === projectId); 0 when there is none
findIndex(instances, id) ==
    IF \E i \in 1..Len(instances) : instances[i].id = id
    THEN CHOOSE i \in 1..Len(instances) :
            instances[i].id = id /\ \A j \in 1..(i - 1) : instances[j].id # id
    ELSE 0

\* this._projects.splice(index, 1)
splice(instances, index) ==
    SubSeq(instances, 1, index - 1) \o SubSeq(instances, index + 1, Len(instances))

\* as deleteProjectIn, but the stored tasks go with the project
deleteProjectIn_removesTasks(r, projectId, w, ord) ==
    IF Falsy(projectId) THEN rejects(r)
    ELSE IF projectId = Lit("default") THEN rejects(r)
    ELSE IF findIndex(r.svc._projects, projectId) = 0 THEN rejects(r)
    ELSE after(_saveProjects(remove(r.g, keys.tasks).g,
                             [r.svc EXCEPT !._projects =
                                 splice(@, findIndex(r.svc._projects, projectId))],
                             w, ord),
               r.writes)

deleteProjectIn(r, projectId, w, ord) ==
    IF Falsy(projectId) THEN rejects(r)
    ELSE IF projectId = Lit("default") THEN rejects(r)
    ELSE IF findIndex(r.svc._projects, projectId) = 0 THEN rejects(r)
    ELSE after(_saveProjects(r.g,
                             [r.svc EXCEPT !._projects =
                                 splice(@, findIndex(r.svc._projects, projectId))],
                             w, ord),
               r.writes)

deleteProject(g, svc, projectId, wi, w, ord, t) ==
    deleteProjectIn(initializeProjects(g, svc, wi, ord, t), projectId, w, ord)

\* the try block of updateProjectName: project.update, then the save
renameIn(r, index, updated, w, ord) ==
    IF updated.threw THEN rejects([r EXCEPT !.svc._projects[index] = updated.project])
    ELSE after(_saveProjects(r.g, [r.svc EXCEPT !._projects[index] = updated.project],
                             w, ord),
               r.writes)

updateProjectNameIn(r, projectId, newName, w, ord) ==
    LET validation == validateProjectData([name |-> newName])
        index == findIndex(r.svc._projects, projectId)
    IN  IF Falsy(projectId) THEN rejects(r)
        ELSE IF Falsy(newName) \/ ~IsString(newName) \/ trim(newName) = Str(<<>>)
        THEN rejects(r)
        ELSE IF index = 0 THEN rejects(r)
        ELSE IF ~validation.valid THEN rejects(r)
        ELSE IF nameTaken(r.svc._projects, validation.data.name, projectId)
        THEN rejects(r)
        ELSE renameIn(r, index,
                      ProjectUpdate(r.svc._projects[index],
                                    [name |-> validation.data.name]),
                      w, ord)

updateProjectName(g, svc, projectId, newName, wi, w, ord, t) ==
    updateProjectNameIn(initializeProjects(g, svc, wi, ord, t), projectId, newName, w, ord)

\* as importLoop, but a record with the id 'default' is imported like any other
RECURSIVE importLoop_replacesDefault(_, _, _, _, _)
importLoop_replacesDefault(items, projects, overwrite, u, t) ==
    IF items = <<>> THEN projects
    ELSE LET projectData == Head(items)
             index == findIndex(projects, Prop(projectData, "id"))
         IN  IF index # 0 /\ ~overwrite
             THEN importLoop_replacesDefault(Tail(items), projects, overwrite, u, t)
             ELSE IF ProjectFromJSONThrows(projectData)
             THEN importLoop_replacesDefault(Tail(items), projects, overwrite, u, t)
             ELSE IF index # 0
             THEN importLoop_replacesDefault(
                      Tail(items),
                      [projects EXCEPT ![index] = ProjectFromJSON(projectData, u, t)],
                      overwrite, u, t)
             ELSE importLoop_replacesDefault(
                      Tail(items),
                      Append(projects, ProjectFromJSON(projectData, u, t)),
                      overwrite,
                      IF Falsy(Prop(projectData, "id")) THEN u + 1 ELSE u, t)

\* the loop of importProjects over importData.projects; u is the index of the next uuid
RECURSIVE importLoop(_, _, _, _, _)
importLoop(items, projects, overwrite, u, t) ==
    IF items = <<>> THEN projects
    ELSE LET projectData == Head(items)
             index == findIndex(projects, Prop(projectData, "id"))
         IN  IF Prop(projectData, "id") = Lit("default")
             THEN importLoop(Tail(items), projects, overwrite, u, t)
             ELSE IF index # 0 /\ ~overwrite
             THEN importLoop(Tail(items), projects, overwrite, u, t)
             ELSE IF ProjectFromJSONThrows(projectData)
             THEN importLoop(Tail(items), projects, overwrite, u, t)
             ELSE IF index # 0
             THEN importLoop(Tail(items),
                             [projects EXCEPT ![index] = ProjectFromJSON(projectData, u, t)],
                             overwrite, u, t)
             ELSE importLoop(Tail(items),
                             Append(projects, ProjectFromJSON(projectData, u, t)),
                             overwrite,
                             IF Falsy(Prop(projectData, "id")) THEN u + 1 ELSE u, t)

\* without options.merge the projects other than the default one are dropped first
importBase(projects, merge) ==
    IF merge THEN projects ELSE SelectSeq(projects, LAMBDA p : p.id = Lit("default"))

importProjectsIn(r, importData, options, w, ord, t) ==
    IF Falsy(importData) \/ Falsy(Prop(importData, "projects"))
       \/ ~IsArray(Prop(importData, "projects"))
    THEN rejects(r)
    ELSE after(_saveProjects(r.g,
                             [r.svc EXCEPT !._projects =
                                 importLoop(importData.projects.array,
                                            importBase(@, options.merge),
                                            options.overwrite,
                                            freshUuid(r.g, r.svc._projects), t)],
                             w, ord),
               r.writes)

importProjects(g, svc, importData, options, wi, w, ord, t) ==
    importProjectsIn(initializeProjects(g, svc, wi, ord, t), importData, options, w, ord, t)

\* refreshFromStorage(): the list is loaded again and the default project ensured;
\* _initialized is not looked at
refreshProjectsFromStorage(g, svc, w, ord, t) ==
    _ensureDefaultProject(g, [svc EXCEPT !._projects = loadProjects(g, t)], w, ord, t)

-----------------------------------------------------------------------------
(* The project repository over the gateway, under arbitrary calls and write failures *)

MaxProjects == 3

\* records a stored project collection may hold: the default project, a project, a
\* corrupted record, a project whose createdAt does not parse
StoredDefault ==
    [id |-> Lit("default"), name |-> Str(<<"A", "l", "l", " ", "T", "a", "s", "k", "s">>),
     createdAt |-> Iso(1), taskCount |-> Num(0)]

StoredWork == [id |-> Lit("p1"), name |-> Str(<<"W">>), createdAt |-> Iso(1),
               taskCount |-> Num(1)]

StoredUndated == [id |-> Lit("p3"), name |-> Str(<<"H">>),
                  createdAt |-> Str(<<"?">>), taskCount |-> Num(0)]

\* what the store holds under the projects key when the services start
StoredProjectCollections ==
    {Null, notJson}
    \cup {JSONstringify([array |-> c]) :
            c \in {<<StoredDefault>>, <<StoredDefault, StoredWork>>,
                   <<StoredWork, [id |-> Lit("p2")]>>,
                   <<StoredDefault, StoredUndated>>}}

\* the store of the service specifications holds at most one key that the quota
\* cleanup may evict, so the order in which the store lists its keys has no effect
ServiceKeyOrder == <<keys.tasks, keys.projects, keys.settings, <<prefix, "test">>>>

InitProjects ==
    /\ \E projects \in StoredProjectCollections :
          localStorage = [k \in FullKeys |->
                             IF k = keys.projects THEN projects ELSE Null]
    /\ _fallbackStorage = <<>>
    /\ _isAvailable = TRUE
    /\ _quotaExceeded = FALSE
    /\ _usingFallback = FALSE
    /\ now = 1
    /\ call = [op |-> "constructor"]
    /\ lastSaved = NothingSaved
    /\ writeLog = {}
    /\ projectService = ProjectServiceConstructed
    /\ taskService = TaskServiceConstructed

\* names callers pass: two that differ in case only, an empty one, and one that
\* sanitizing changes
ProjectNames ==
    {Str(<<"W">>), Str(<<"w">>), Str(<<>>), Str(<<"<", " ", "W">>)}

\* ids callers pass: those of the projects held, the default id, an unknown one
ProjectIds ==
    {projectService._projects[i].id : i \in 1..Len(projectService._projects)}
    \cup {Lit("default"), Lit("p9")}

ImportRecords ==
    {[id |-> Lit("default"), name |-> Str(<<"X">>), createdAt |-> Iso(1),
      taskCount |-> Num(0)],
     [id |-> Lit("p1"), name |-> Str(<<"w">>), createdAt |-> Iso(1), taskCount |-> Num(0)],
     [name |-> Str(<<"a", "l", "l", " ", "t", "a", "s", "k", "s">>)],
     [id |-> Lit("p6")]}

MaxImported == 1

\* backups handed to importProjects: up to MaxImported records, or no backup at all
ImportData ==
    {Null} \cup {[projects |-> [array |-> c]] : c \in SeqsUpTo(ImportRecords, MaxImported)}

ImportOptions == [merge : BOOLEAN, overwrite : BOOLEAN]

\* what setItem does during an operation of a service, on the first try and on the
\* retry: it takes the write, or throws an error that is no quota error (the quota
\* path is the subject of Spec). The first write that throws puts the gateway in Fallback, so one plan
\* serves the save of initialize() and the save of the operation itself.
ServicePlans ==
    IF storeUsable(Gateway) THEN {<<"ok", "ok">>, <<"error", "ok">>}
    ELSE {<<"ok", "ok">>}

\* the outcome r of a ProjectService operation op becomes the state; the argument is
\* kept for deleteProject
ProjectsBecome(op, arg, r) ==
    /\ Becomes(r.g)
    /\ projectService' = r.svc
    /\ call' = [op |-> op, arg |-> arg, threw |-> r.threw]
    /\ UNCHANGED <<now, lastSaved, writeLog, taskService>>

InitializeProjects(w) ==
    /\ ~projectService._initialized
    /\ ProjectsBecome("initialize", Null,
                      initializeProjects(Gateway, projectService, w, ServiceKeyOrder, now))

CreateProject(name, w) ==
    /\ Len(projectService._projects) < MaxProjects
    /\ ProjectsBecome("createProject", Null,
                      createProject(Gateway, projectService, name, w, w,
                                    ServiceKeyOrder, now))

DeleteProject(projectId, w) ==
    ProjectsBecome("deleteProject", projectId,
                   deleteProject(Gateway, projectService, projectId, w, w,
                                 ServiceKeyOrder, now))

UpdateProjectName(projectId, newName, w) ==
    ProjectsBecome("updateProjectName", Null,
                   updateProjectName(Gateway, projectService, projectId, newName, w, w,
                                     ServiceKeyOrder, now))

ImportProjects(importData, options, w) ==
    LET r == importProjects(Gateway, projectService, importData, options, w, w,
                            ServiceKeyOrder, now)
    IN  /\ Len(r.svc._projects) <= MaxProjects
        /\ ProjectsBecome("importProjects", Null, r)

RefreshFromStorage(w) ==
    ProjectsBecome("refreshFromStorage", Null,
                   refreshProjectsFromStorage(Gateway, projectService, w,
                                              ServiceKeyOrder, now))

NextProjects ==
    \/ \E w \in ServicePlans : InitializeProjects(w)
    \/ \E name \in ProjectNames, w \in ServicePlans : CreateProject(name, w)
    \/ \E projectId \in ProjectIds, w \in ServicePlans : DeleteProject(projectId, w)
    \/ \E projectId \in ProjectIds, newName \in ProjectNames, w \in ServicePlans :
          UpdateProjectName(projectId, newName, w)
    \/ \E importData \in ImportData, options \in ImportOptions, w \in ServicePlans :
          ImportProjects(importData, options, w)
    \/ \E w \in ServicePlans : RefreshFromStorage(w)

SpecProjects == InitProjects /\ [][NextProjects]_vars

(***************************************************************************)
(* Claims about the project collection                                     *)
(***************************************************************************)

defaultProjects(projects) ==
    {i \in 1..Len(projects) : projects[i].id = Lit("default")}

sameNamePairs(projects) ==
    {<<i, j>> \in (1..Len(projects)) \X (1..Len(projects)) :
        i < j /\ toLowerCase(projects[i].name) = toLowerCase(projects[j].name)}

\* C13: after any sequence of createProject, updateProjectName and importProjects no
\* two projects of the service have names that are equal ignoring case.
C13_NamesUniqueIgnoringCase ==
    projectService._initialized => sameNamePairs(projectService._projects) = {}

(***************************************************************************)
(* Validation of task data, Task.update, TaskService                        *)
(***************************************************************************)

\* Validation.validatePriority(priority): 'medium' when none is given (enum values
\* are written in lower case)
validatePriority(priority) ==
    IF Falsy(priority) \/ ~IsString(priority)
    THEN [valid |-> TRUE, value |-> Lit("medium")]
    ELSE IF trim(toLowerCase(priority)) \notin validPriorities
    THEN [valid |-> FALSE, value |-> Lit("medium")]
    ELSE [valid |-> TRUE, value |-> trim(toLowerCase(priority))]

\* Validation.validateDate(dateValue)
validateDate(dateValue) ==
    IF Falsy(dateValue) THEN [valid |-> TRUE, value |-> Null]
    ELSE IF ~IsDate(dateValue) /\ ~IsString(dateValue) THEN [valid |-> FALSE, value |-> Null]
    ELSE IF newDate(dateValue) = InvalidDate THEN [valid |-> FALSE, value |-> Null]
    ELSE [valid |-> TRUE, value |-> newDate(dateValue)]

\* the item that the forEach of validateChecklist reports
checklistItemInvalid(item) ==
    \/ Falsy(item) \/ ~IsObject(item)
    \/ ~validateRequired(Prop(item, "text")).valid

\* Validation.validateChecklist(checklist)
validateChecklist(checklist) ==
    IF Falsy(checklist) THEN [valid |-> TRUE, value |-> [array |-> <<>>]]
    ELSE IF ~IsArray(checklist) THEN [valid |-> FALSE, value |-> [array |-> <<>>]]
    ELSE LET kept == SelectSeq(checklist.array, LAMBDA item : ~checklistItemInvalid(item))
         IN  [valid |-> Len(kept) = Len(checklist.array),
              value |-> [array |->
                  [i \in 1..Len(kept) |->
                      [id |-> IF Falsy(Prop(kept[i], "id")) THEN Null ELSE kept[i].id,
                       text |-> validateRequired(kept[i].text).value,
                       completed |-> Bool(~Falsy(Prop(kept[i], "completed")))]]]]

\* one optional field of validateTaskData: [ok, data]; v is the validation of the
\* field, which is looked at only when the field is given
validatedField(taskData, f, v) ==
    IF Prop(taskData, f) = Undefined THEN [ok |-> TRUE, data |-> <<>>]
    ELSE IF ~v.valid THEN [ok |-> FALSE, data |-> <<>>]
    ELSE [ok |-> TRUE, data |-> [x \in {f} |-> v.value]]

\* Validation.validateTaskData(taskData): the title is required, the priority is always
\* part of the validated data, completed never is
validateTaskData(taskData) ==
    LET titleValidation == validateRequired(Prop(taskData, "title"))
        lengthValidation == validateLength(titleValidation.value, 1, 200)
        titleOk == titleValidation.valid /\ lengthValidation.valid
        description == validatedField(taskData, "description",
                           validateLength(Prop(taskData, "description"), 0, 1000))
        dueDate == validatedField(taskData, "dueDate",
                                  validateDate(Prop(taskData, "dueDate")))
        priorityValidation == validatePriority(Prop(taskData, "priority"))
        notes == validatedField(taskData, "notes",
                                validateLength(Prop(taskData, "notes"), 0, 2000))
        checklist == validatedField(taskData, "checklist",
                                    validateChecklist(Prop(taskData, "checklist")))
        projectId == validatedField(taskData, "projectId",
                                    validateRequired(Prop(taskData, "projectId")))
    IN  [valid |-> /\ titleOk /\ description.ok /\ dueDate.ok /\ priorityValidation.valid
                   /\ notes.ok /\ checklist.ok /\ projectId.ok,
         data |-> (IF titleOk THEN [title |-> lengthValidation.value] ELSE <<>>)
                  @@ description.data @@ dueDate.data
                  @@ [priority |-> priorityValidation.value]
                  @@ notes.data @@ checklist.data @@ projectId.data]

\* updates.f !== undefined ? updates.f : this.f
updated(task, updates, f) ==
    IF Prop(updates, f) # Undefined THEN updates[f] ELSE task[f]

\* the record Task.update hands to the constructor
updatedData(task, updates, t) ==
    [id |-> task.id,
     title |-> updated(task, updates, "title"),
     description |-> updated(task, updates, "description"),
     dueDate |-> updated(task, updates, "dueDate"),
     priority |-> updated(task, updates, "priority"),
     notes |-> updated(task, updates, "notes"),
     checklist |-> updated(task, updates, "checklist"),
     completed |-> updated(task, updates, "completed"),
     projectId |-> updated(task, updates, "projectId"),
     createdAt |-> task.createdAt,
     updatedAt |-> Date(t)]

\* as Task.update, but the title is assigned before the merged record is validated
TaskUpdate_assignsFirst(task, updates, u, t) ==
    IF TaskThrows(updatedData(task, updates, t))
    THEN [task |-> [task EXCEPT !.title = updated(task, updates, "title")],
          threw |-> TRUE]
    ELSE [task |-> Task(updatedData(task, updates, t), u, t), threw |-> FALSE]

\* task.update(updates): a new Task is constructed from the merged record, and only
\* then assigned to this
TaskUpdate(task, updates, u, t) ==
    IF TaskThrows(updatedData(task, updates, t))
    THEN [task |-> task, threw |-> TRUE]
    ELSE [task |-> Task(updatedData(task, updates, t), u, t), threw |-> FALSE]

\* task.toggleCompletion()
toggleCompletion(task, t) ==
    [task EXCEPT !.completed = Bool(@ # Bool(TRUE)), !.updatedAt = Date(t)]

-----------------------------------------------------------------------------
(* TaskService: the outcome of an operation is the gateway, the service, whether the
   call rejected, the keys written, and whether saveTasks threw *)

\* initialize(), which every operation awaits first through _ensureInitialized()
initializeTasks(g, svc, t) ==
    [g |-> g,
     svc |-> IF svc._initialized THEN svc
             ELSE [_tasks |-> loadTasks(g, t), _initialized |-> TRUE],
     threw |-> FALSE, writes |-> {}, saveThrew |-> FALSE]

\* the in-memory list becomes tasks, then _saveTasks(); nothing is undone when the
\* save throws
_saveTasks(r, tasks, w, ord) ==
    LET s == saveTasks(r.g, tasks, w[1], w[2], ord) IN
    [g |-> s.g, svc |-> [r.svc EXCEPT !._tasks = tasks], threw |-> s.threw,
     writes |-> r.writes \cup s.writes, saveThrew |-> s.threw]

\* createTask(taskData) once the service is initialized (state r)
createTaskIn(r, taskData, w, ord, t) ==
    LET validation == validateTaskData(taskData) IN
    IF ~validation.valid THEN rejects(r)
    ELSE IF TaskThrows(validation.data) THEN rejects(r)
    ELSE _saveTasks(r, Append(r.svc._tasks,
                              Task(validation.data, freshUuid(r.g, r.svc._tasks), t)),
                    w, ord)

createTask(g, svc, taskData, w, ord, t) ==
    createTaskIn(initializeTasks(g, svc, t), taskData, w, ord, t)

\* updateTask(taskId, updates) once the service is initialized
updateTaskIn(r, taskId, updates, w, ord, t) ==
    LET index == findIndex(r.svc._tasks, taskId)
        validation == validateTaskData(updates)
        update == TaskUpdate(r.svc._tasks[index], validation.data,
                             freshUuid(r.g, r.svc._tasks), t)
    IN  IF Falsy(taskId) \/ index = 0 THEN rejects(r)
        ELSE IF ~validation.valid THEN rejects(r)
        ELSE IF update.threw THEN rejects(r)
        ELSE _saveTasks(r, [r.svc._tasks EXCEPT ![index] = update.task], w, ord)

updateTask(g, svc, taskId, updates, w, ord, t) ==
    updateTaskIn(initializeTasks(g, svc, t), taskId, updates, w, ord, t)

\* deleteTask(taskId) once the service is initialized
deleteTaskIn(r, taskId, w, ord) ==
    IF Falsy(taskId) \/ findIndex(r.svc._tasks, taskId) = 0 THEN rejects(r)
    ELSE _saveTasks(r, splice(r.svc._tasks, findIndex(r.svc._tasks, taskId)), w, ord)

deleteTask(g, svc, taskId, w, ord, t) ==
    deleteTaskIn(initializeTasks(g, svc, t), taskId, w, ord)

\* toggleTaskCompletion(taskId) once the service is initialized
toggleTaskCompletionIn(r, taskId, w, ord, t) ==
    LET index == findIndex(r.svc._tasks, taskId) IN
    IF Falsy(taskId) \/ index = 0 THEN rejects(r)
    ELSE _saveTasks(r, [r.svc._tasks EXCEPT ![index] = toggleCompletion(@, t)], w, ord)

toggleTaskCompletion(g, svc, taskId, w, ord, t) ==
    toggleTaskCompletionIn(initializeTasks(g, svc, t), taskId, w, ord, t)

\* moveTaskToProject(taskId, projectId) once the service is initialized
moveTaskToProjectIn(r, taskId, projectId, w, ord, t) ==
    LET index == findIndex(r.svc._tasks, taskId)
        update == TaskUpdate(r.svc._tasks[index], [projectId |-> projectId],
                             freshUuid(r.g, r.svc._tasks), t)
    IN  IF Falsy(taskId) \/ Falsy(projectId) \/ index = 0 THEN rejects(r)
        ELSE IF update.threw THEN rejects(r)
        ELSE _saveTasks(r, [r.svc._tasks EXCEPT ![index] = update.task], w, ord)

moveTaskToProject(g, svc, taskId, projectId, w, ord, t) ==
    moveTaskToProjectIn(initializeTasks(g, svc, t), taskId, projectId, w, ord, t)

\* as getTasksByProject, but the default project is filtered like any other
getTasksByProject_filtersAlways(tasks, projectId) ==
    SelectSeq(tasks, LAMBDA task :
        task.projectId = IF projectId = Undefined THEN Lit("default") ELSE projectId)

\* getTasksByProject(projectId = 'default') on the list the initialized service holds
getTasksByProject(tasks, projectId) ==
    IF projectId \in {Undefined, Lit("default")} THEN tasks
    ELSE SelectSeq(tasks, LAMBDA task : task.projectId = projectId)

(***************************************************************************)
(* The task repository: TaskService over the gateway                        *)
(***************************************************************************)

MaxTasks == 2

\* the clock ticks once per operation of the task repository, up to MaxClock
MaxClock == 5

\* records a stored task collection may hold: a task of the default project, a task of
\* project p1, a task whose dueDate does not parse
StoredFirst ==
    [id |-> Lit("t1"), title |-> Str(<<"A">>), description |-> Str(<<>>),
     dueDate |-> Null, priority |-> Lit("high"), notes |-> Str(<<>>),
     checklist |-> [array |-> <<>>], completed |-> Bool(FALSE),
     projectId |-> Lit("default"), createdAt |-> Iso(1), updatedAt |-> Iso(1)]

StoredSecond ==
    [StoredFirst EXCEPT !.id = Lit("t2"), !.title = Str(<<"B">>),
                        !.priority = Lit("medium"), !.projectId = Lit("p1")]

StoredMisdated ==
    [StoredFirst EXCEPT !.id = Lit("t4"), !.title = Str(<<"D">>),
                        !.dueDate = Str(<<"i", "n", "v", "a", "l", "i", "d">>)]

\* what the store holds under the tasks key when the services start
StoredTaskCollections ==
    {Null, notJson}
    \cup {JSONstringify([array |-> c]) :
            c \in {<<StoredFirst>>, <<StoredFirst, StoredSecond>>,
                   <<StoredFirst, StoredMisdated>>}}

InitTasks ==
    /\ \E tasks \in StoredTaskCollections :
          localStorage = [k \in FullKeys |-> IF k = keys.tasks THEN tasks ELSE Null]
    /\ _fallbackStorage = <<>>
    /\ _isAvailable = TRUE
    /\ _quotaExceeded = FALSE
    /\ _usingFallback = FALSE
    /\ now = 2
    /\ call = [op |-> "constructor"]
    /\ lastSaved = NothingSaved
    /\ writeLog = {}
    /\ projectService = ProjectServiceConstructed
    /\ taskService = TaskServiceConstructed

\* task data callers pass to createTask
TaskData ==
    {[title |-> Str(<<"N">>)],
     [title |-> Str(<<>>)],
     [title |-> Str(<<"N">>), priority |-> Lit("high"), projectId |-> Lit("p1")]}

\* updates callers pass to updateTask
TaskUpdates ==
    {[title |-> Str(<<"N">>)],
     [title |-> Str(<<>>)],
     [completed |-> Bool(TRUE)],
     [priority |-> Lit("low")]}

\* ids callers pass: those of the tasks held, and an unknown one
TaskIds ==
    {taskService._tasks[i].id : i \in 1..Len(taskService._tasks)} \cup {Lit("t9")}

\* project ids callers pass; undefined stands for an argument left out
TaskProjectIds == {Undefined, Lit("default"), Lit("p1")}

\* the outcome r of a TaskService operation op becomes the state, and the clock has
\* moved on; the argument is kept for updateTask and getTasksByProject, ret is what
\* getTasksByProject returned
TasksBecome(op, arg, r, ret) ==
    /\ now < MaxClock
    /\ now' = now + 1
    /\ Becomes(r.g)
    /\ taskService' = r.svc
    /\ call' = [op |-> op, arg |-> arg, threw |-> r.threw, saveThrew |-> r.saveThrew,
                ret |-> ret]
    /\ UNCHANGED <<lastSaved, writeLog, projectService>>

InitializeTasks ==
    /\ ~taskService._initialized
    /\ TasksBecome("initialize", Null, initializeTasks(Gateway, taskService, now), Null)

CreateTask(taskData, w) ==
    /\ Len(taskService._tasks) < MaxTasks
    /\ TasksBecome("createTask", Null,
                   createTask(Gateway, taskService, taskData, w, ServiceKeyOrder, now),
                   Null)

UpdateTask(taskId, updates, w) ==
    TasksBecome("updateTask", [taskId |-> taskId, updates |-> updates],
                updateTask(Gateway, taskService, taskId, updates, w, ServiceKeyOrder, now),
                Null)

DeleteTask(taskId, w) ==
    TasksBecome("deleteTask", Null,
                deleteTask(Gateway, taskService, taskId, w, ServiceKeyOrder, now), Null)

ToggleTaskCompletion(taskId, w) ==
    TasksBecome("toggleTaskCompletion", Null,
                toggleTaskCompletion(Gateway, taskService, taskId, w, ServiceKeyOrder,
                                     now),
                Null)

MoveTaskToProject(taskId, projectId, w) ==
    TasksBecome("moveTaskToProject", Null,
                moveTaskToProject(Gateway, taskService, taskId, projectId, w,
                                  ServiceKeyOrder, now),
                Null)

GetTasksByProject(projectId) ==
    LET r == initializeTasks(Gateway, taskService, now) IN
    TasksBecome("getTasksByProject", projectId, r,
                getTasksByProject(r.svc._tasks, projectId))

NextTasks ==
    \/ InitializeTasks
    \/ \E taskData \in TaskData, w \in ServicePlans : CreateTask(taskData, w)
    \/ \E taskId \in TaskIds, updates \in TaskUpdates, w \in ServicePlans :
          UpdateTask(taskId, updates, w)
    \/ \E taskId \in TaskIds, w \in ServicePlans : DeleteTask(taskId, w)
    \/ \E taskId \in TaskIds, w \in ServicePlans : ToggleTaskCompletion(taskId, w)
    \/ \E taskId \in TaskIds, projectId \in TaskProjectIds \ {Undefined},
          w \in ServicePlans : MoveTaskToProject(taskId, projectId, w)
    \/ \E projectId \in TaskProjectIds : GetTasksByProject(projectId)

SpecTasks == InitTasks /\ [][NextTasks]_vars

(***************************************************************************)
(* Claims about the task repository                                        *)
(***************************************************************************)

\* the tasks of a list that belong to project p, in order
tasksOf(tasks, p) == SelectSeq(tasks, LAMBDA task : task.projectId = p)

C15_DefaultReturnsOwnTasksOnly ==
    call.op = "getTasksByProject" /\ call.arg \in {Undefined, Lit("default")}
    => \A i \in 1..Len(call.ret) : call.ret[i].projectId = Lit("default")

\* the list the task repository holds once an operation has awaited initialize()
tasksHeld == initializeTasks(Gateway, taskService, now).svc._tasks

\* C16: when saveTasks throws after createTask, updateTask, deleteTask,
\* toggleTaskCompletion or moveTaskToProject has changed the list in memory, the
\* operation rejects and the list in memory (membership, order, every field of every
\* task) is what it was before the operation.
C16_RollbackWhenSaveThrows ==
    [][ call'.op \in {"createTask", "updateTask", "deleteTask", "toggleTaskCompletion",
                      "moveTaskToProject"}
        /\ call'.saveThrew
        => call'.threw /\ taskService'._tasks = tasksHeld ]_vars

\* the task of the list held that updateTask was called for
taskBefore == tasksHeld[findIndex(tasksHeld, call'.arg.taskId)]

taskAfter == taskService'._tasks[findIndex(taskService'._tasks, call'.arg.taskId)]

\* C17: when the store's write throws an error that is no quota error during
\* updateTask(id, {title}), the call rejects and the task keeps its title. (The write
\* that throws is the step on which the gateway enters Fallback.)
C17_UpdateRejectsWhenWriteThrows ==
    [][ /\ call'.op = "updateTask"
        /\ DOMAIN call'.arg.updates = {"title"}
        /\ findIndex(tasksHeld, call'.arg.taskId) # 0
        /\ ~_usingFallback /\ _usingFallback'
        => call'.threw /\ taskAfter.title = taskBefore.title ]_vars

\* the updates records of TaskUpdates that hold valid fields only
ValidUpdates == {updates \in TaskUpdates : ~TaskThrows([title |-> Str(<<"A">>)] @@ updates)
                                           /\ Prop(updates, "title") # Str(<<>>)}

\* C18: updateTask with an existing task and valid fields (a title is not required)
\* resolves, and the task afterwards is the task before with exactly the provided
\* fields replaced and updatedAt refreshed; every other field, priority included,
\* keeps its value.
C18_UpdateMergesProvidedFields ==
    [][ /\ call'.op = "updateTask"
        /\ call'.arg.updates \in ValidUpdates
        /\ findIndex(tasksHeld, call'.arg.taskId) # 0
        /\ ~call'.saveThrew
        => /\ ~call'.threw
           /\ taskAfter = [f \in DOMAIN taskBefore |->
                              IF f \in DOMAIN call'.arg.updates THEN call'.arg.updates[f]
                              ELSE IF f = "updatedAt" THEN Date(now)
                              ELSE taskBefore[f]] ]_vars

(***************************************************************************)
(* The models: update called on the instances the services hold            *)
(***************************************************************************)

\* the store holds a task and the default project with one more project
InitModels ==
    /\ \E tasks \in {<<StoredFirst>>, <<StoredSecond>>} :
          localStorage = [k \in FullKeys |->
                             IF k = keys.tasks THEN JSONstringify([array |-> tasks])
                             ELSE IF k = keys.projects
                             THEN JSONstringify([array |-> <<StoredDefault, StoredWork>>])
                             ELSE Null]
    /\ _fallbackStorage = <<>>
    /\ _isAvailable = TRUE
    /\ _quotaExceeded = FALSE
    /\ _usingFallback = FALSE
    /\ now = 2
    /\ call = [op |-> "constructor"]
    /\ lastSaved = NothingSaved
    /\ writeLog = {}
    /\ projectService = ProjectServiceConstructed
    /\ taskService = TaskServiceConstructed

\* partial records callers pass to task.update: valid ones, and ones whose merged
\* result the constructor rejects (with and without a valid field beside the bad one)
TaskPartials ==
    {[title |-> Str(<<"N">>)],
     [completed |-> Bool(TRUE)],
     [checklist |-> [array |-> <<[text |-> Str(<<"x">>), completed |-> Bool(FALSE)]>>]],
     [title |-> Str(<<" ">>)],
     [priority |-> Lit("urgent")],
     [checklist |-> [array |-> <<[text |-> Str(<<>>), completed |-> Bool(FALSE)]>>]],
     [checklist |-> Str(<<"x">>)],
     [title |-> Str(<<"N">>), priority |-> Lit("urgent")]}

\* partial records callers pass to project.update
ProjectPartials ==
    {[name |-> Str(<<"V">>)],
     [taskCount |-> Num(5)],
     [name |-> Str(<<" ">>)],
     [taskCount |-> Num(-1)],
     [taskCount |-> Str(<<"x">>)],
     [name |-> Str(<<"V">>), taskCount |-> Num(-1)],
     [name |-> Str(<<>>), taskCount |-> Num(5)]}

\* a caller calls update on the index-th task it got from the service
TaskUpdateCall(index, updates) ==
    LET r == TaskUpdate(taskService._tasks[index], updates,
                        freshUuid(Gateway, taskService._tasks), now)
    IN  /\ taskService' = [taskService EXCEPT !._tasks[index] = r.task]
        /\ call' = [op |-> "Task.update", index |-> index, updates |-> updates,
                    threw |-> r.threw]
        /\ UNCHANGED <<localStorage, _fallbackStorage, _isAvailable, _quotaExceeded,
                       _usingFallback, now, lastSaved, writeLog, projectService>>

\* a caller calls update on the index-th project it got from the service
ProjectUpdateCall(index, updates) ==
    LET r == ProjectUpdate(projectService._projects[index], updates)
    IN  /\ projectService' = [projectService EXCEPT !._projects[index] = r.project]
        /\ call' = [op |-> "Project.update", index |-> index, updates |-> updates,
                    threw |-> r.threw]
        /\ UNCHANGED <<localStorage, _fallbackStorage, _isAvailable, _quotaExceeded,
                       _usingFallback, now, lastSaved, writeLog, taskService>>

NextModels ==
    \/ InitializeTasks
    \/ InitializeProjects(<<"ok", "ok">>)
    \/ \E index \in 1..Len(taskService._tasks), updates \in TaskPartials :
          TaskUpdateCall(index, updates)
    \/ \E index \in 1..Len(projectService._projects), updates \in ProjectPartials :
          ProjectUpdateCall(index, updates)

SpecModels == InitModels /\ [][NextModels]_vars

\* the value field f has after the merge of Task.update or Project.update
merged(instance, updates, f) ==
    IF f \in DOMAIN updates THEN updates[f] ELSE instance[f]

\* a checklist as the spec has it: a list of items with a non-empty text and a
\* boolean completed
wellFormedChecklist(checklist) ==
    /\ DOMAIN checklist = {"array"}
    /\ \A i \in 1..Len(checklist.array) :
          /\ DOMAIN checklist.array[i] \subseteq {"id", "text", "completed"}
          /\ {"text", "completed"} \subseteq DOMAIN checklist.array[i]
          /\ DOMAIN checklist.array[i].text = {"str"}
          /\ checklist.array[i].text.str # <<>>
          /\ checklist.array[i].completed \in {Bool(TRUE), Bool(FALSE)}

\* the merged result of task.update(updates) fails validation
mergedTaskInvalid(task, updates) ==
    \/ DOMAIN merged(task, updates, "title") # {"str"}
    \/ trim(merged(task, updates, "title")) = Str(<<>>)
    \/ merged(task, updates, "priority") \notin {Lit("high"), Lit("medium"), Lit("low")}
    \/ ~wellFormedChecklist(merged(task, updates, "checklist"))

\* C19: Task.update(partial) is all-or-nothing: when the merged result fails validation
\* (empty title, priority outside high/medium/low, malformed checklist) update throws,
\* and whenever it throws every field of the task, updatedAt included, is as before.
C19_TaskUpdateAllOrNothing ==
    [][ call'.op = "Task.update"
        => /\ mergedTaskInvalid(taskService._tasks[call'.index], call'.updates)
                => call'.threw
           /\ call'.threw => taskService'._tasks = taskService._tasks ]_vars

\* task.update has thrown for a partial record that holds a valid title beside an
\* invalid priority, on a task whose title and updatedAt differ from what was passed
C19_Witness ==
    /\ call.op = "Task.update"
    /\ call.threw
    /\ call.updates = [title |-> Str(<<"N">>), priority |-> Lit("urgent")]
    /\ taskService._tasks[call.index].title # Str(<<"N">>)
    /\ taskService._tasks[call.index].updatedAt # Date(now)

\* a field of a partial record for project.update is invalid
projectPartialInvalid(updates) ==
    \/ "name" \in DOMAIN updates
       /\ (DOMAIN updates.name # {"str"} \/ trim(updates.name) = Str(<<>>))
    \/ "taskCount" \in DOMAIN updates
       /\ (DOMAIN updates.taskCount # {"num"} \/ updates.taskCount.num < 0)

\* C20: Project.update(partial) is all-or-nothing: when a provided field is invalid
\* (empty name, taskCount negative or not a number) update throws and name and
\* taskCount of the project are as before, also when the other field was valid.
C20_ProjectUpdateAllOrNothing ==
    [][ call'.op = "Project.update" /\ projectPartialInvalid(call'.updates)
        => /\ call'.threw
           /\ projectService'._projects[call'.index].name
                 = projectService._projects[call'.index].name
           /\ projectService'._projects[call'.index].taskCount
                 = projectService._projects[call'.index].taskCount ]_vars

(***************************************************************************)
(* Claims about persistence of the task repository                         *)
(***************************************************************************)

\* ids, titles and projectIds of a list of tasks, in order
identities(tasks) ==
    [i \in 1..Len(tasks) |-> <<tasks[i].id, tasks[i].title, tasks[i].projectId>>]

\* C21: after tasks have been created through a repository (and after any other
\* operation of it that resolved), a fresh repository that initializes from the same
\* gateway holds as many tasks, with the same ids, titles and projectIds in the same
\* order, in Normal state and in Fallback alike.
C21_FreshRepositoryHoldsSameTasks ==
    call.op \in {"createTask", "updateTask", "deleteTask", "toggleTaskCompletion",
                 "moveTaskToProject"}
    /\ ~call.threw
    => identities(loadTasks(Gateway, now)) = identities(taskService._tasks)

\* two tasks are held after a createTask that resolved while the gateway is in
\* Fallback, one of them created there
C21_Witness ==
    /\ call.op = "createTask"
    /\ ~call.threw
    /\ _usingFallback
    /\ Len(taskService._tasks) = 2
    /\ DOMAIN taskService._tasks[2].id = {"uuid"}
    /\ identities(loadTasks(Gateway, now)) = identities(taskService._tasks)

(***************************************************************************)
(* Claims about importProjects                                             *)
(***************************************************************************)

\* name, createdAt and taskCount of the default projects of a list
defaultsKept(projects) ==
    {<<projects[i].name, projects[i].createdAt, projects[i].taskCount>> :
        i \in {j \in 1..Len(projects) : projects[j].id = Lit("default")}}

\* C25: importProjects never replaces or removes the default project: whatever the
\* records and the merge and overwrite options, the default project present before
\* the import is present afterwards with the same name, createdAt and taskCount.
C25_ImportKeepsDefault ==
    [][call'.op = "importProjects" /\ defaultsKept(projectService._projects) # {}
       => defaultsKept(projectService'._projects) = defaultsKept(projectService._projects)]_vars

\* an import that resolved has replaced another project and kept the default one
C25_Witness ==
    /\ call.op = "importProjects"
    /\ ~call.threw
    /\ \E i \in 1..Len(projectService._projects) :
          /\ projectService._projects[i].id = Lit("p1")
          /\ projectService._projects[i].name = Str(<<"w">>)
    /\ \E i \in 1..Len(projectService._projects) :
          /\ projectService._projects[i].id = Lit("default")
          /\ projectService._projects[i].name = StoredDefault.name

(***************************************************************************)
(* Both repositories over one gateway: task counts and project deletion     *)
(***************************************************************************)

\* the callback syncProjectTaskCounts hands to syncTaskCounts, on the list the
\* initialized task service holds
getTaskCountForProject(tasks, projectId) ==
    IF projectId = Lit("all") THEN Len(tasks)
    ELSE Len(getTasksByProject(tasks, projectId))

\* the loop of syncTaskCounts: setTaskCount on every project whose count differs
syncedProjects(projects, tasks) ==
    [i \in 1..Len(projects) |->
        [projects[i] EXCEPT !.taskCount =
            Num(getTaskCountForProject(tasks,
                                       IF projects[i].id = Lit("default") THEN Lit("all")
                                       ELSE projects[i].id))]]

totalSynced(projects, tasks) ==
    Cardinality({i \in 1..Len(projects) : syncedProjects(projects, tasks)[i] # projects[i]})

\* syncTaskCounts once the project service is initialized (state r) with the tasks
\* the callback reads: the save happens only when a count was changed
syncTaskCountsIn(r, tasks, w, ord) ==
    IF totalSynced(r.svc._projects, tasks) = 0 THEN r
    ELSE after(_saveProjects(r.g,
                             [r.svc EXCEPT !._projects = syncedProjects(@, tasks)],
                             w, ord),
               r.writes)

\* the task service as the callback's first call leaves it
tasksRead(r, tsvc, t) == initializeTasks(r.g, tsvc, t).svc

\* the outcome of syncTaskCounts with the task service the callback has read from,
\* and the number of projects whose count was changed
counted(r, tasks, w, ord) ==
    [tasks |-> tasks, updated |-> totalSynced(r.svc._projects, tasks._tasks)]
    @@ syncTaskCountsIn(r, tasks._tasks, w, ord)

syncTaskCountsWith(r, tsvc, w, ord, t) == counted(r, tasksRead(r, tsvc, t), w, ord)

\* syncProjectTaskCounts(): both services initialize when they have not yet
syncTaskCounts(g, svc, tsvc, wi, w, ord, t) ==
    syncTaskCountsWith(initializeProjects(g, svc, wi, ord, t), tsvc, w, ord, t)

StoredPair == JSONstringify([array |-> <<StoredFirst, StoredSecond>>])

\* the store holds tasks and projects when the services start
InitRepositories ==
    /\ \E tasks \in {StoredPair, JSONstringify([array |-> <<StoredSecond>>])},
          projects \in {Null,
                        JSONstringify([array |-> <<StoredDefault, StoredWork>>]),
                        JSONstringify([array |-> <<StoredDefault, StoredWork,
                                                   StoredUndated>>])} :
          localStorage = [k \in FullKeys |->
                             IF k = keys.tasks THEN tasks
                             ELSE IF k = keys.projects THEN projects
                             ELSE Null]
    /\ _fallbackStorage = <<>>
    /\ _isAvailable = TRUE
    /\ _quotaExceeded = FALSE
    /\ _usingFallback = FALSE
    /\ now = 2
    /\ call = [op |-> "constructor"]
    /\ lastSaved = NothingSaved
    /\ writeLog = {}
    /\ projectService = ProjectServiceConstructed
    /\ taskService = TaskServiceConstructed

\* the outcome r of syncProjectTaskCounts becomes the state
Synced(r) ==
    /\ Becomes(r.g)
    /\ projectService' = r.svc
    /\ taskService' = r.tasks
    /\ call' = [op |-> "syncTaskCounts", threw |-> r.threw, updated |-> r.updated]
    /\ UNCHANGED <<now, lastSaved, writeLog>>

SyncTaskCounts(w) ==
    Synced(syncTaskCounts(Gateway, projectService, taskService, w, w,
                          ServiceKeyOrder, now))

NextRepositories ==
    \/ InitializeTasks
    \/ \E w \in ServicePlans : InitializeProjects(w)
    \/ \E w \in ServicePlans : CreateTask([title |-> Str(<<"N">>), projectId |-> Lit("p1")], w)
    \/ \E taskId \in TaskIds, projectId \in {Lit("default"), Lit("p1")},
          w \in ServicePlans : MoveTaskToProject(taskId, projectId, w)
    \/ \E projectId \in ProjectIds, w \in ServicePlans : DeleteProject(projectId, w)
    \/ \E w \in ServicePlans : SyncTaskCounts(w)

SpecRepositories == InitRepositories /\ [][NextRepositories]_vars

\* <<id, taskCount>> of every project of a list
counts(projects) == [i \in 1..Len(projects) |-> <<projects[i].id, projects[i].taskCount>>]

\* the tasks of the collection that reference project id
referencing(id) == SelectSeq(taskService._tasks, LAMBDA task : task.projectId = id)

\* C23: after syncTaskCounts has completed, every non-default project's taskCount is
\* the number of tasks whose projectId is its id, the default project's taskCount is
\* the number of all tasks, the persisted projects carry the same counts, and a sync
\* repeated at once updates nothing.
C23_SyncReconcilesCounts ==
    call.op = "syncTaskCounts" /\ ~call.threw
    => /\ \A i \in 1..Len(projectService._projects) :
             projectService._projects[i].taskCount =
                 Num(IF projectService._projects[i].id = Lit("default")
                     THEN Len(taskService._tasks)
                     ELSE Len(referencing(projectService._projects[i].id)))
       /\ counts(loadProjects(Gateway, now)) = counts(projectService._projects)
       /\ syncTaskCounts(Gateway, projectService, taskService, <<"ok", "ok">>,
                         <<"ok", "ok">>, ServiceKeyOrder, now).updated = 0

\* C24: deleteProject(p) moves no tasks: deleting a non-default project leaves the
\* task collection as it was, in memory and in the store, the projectId of the tasks
\* that referenced p included.
C24_DeleteProjectMovesNoTasks ==
    [][call'.op = "deleteProject"
       => /\ taskService' = taskService
          /\ loadTasks(Gateway', now') = loadTasks(Gateway, now)]_vars

\* project p1 has been deleted and a task of the collection still references it
C24_Witness ==
    /\ call.op = "deleteProject"
    /\ ~call.threw
    /\ call.arg = Lit("p1")
    /\ findIndex(projectService._projects, Lit("p1")) = 0
    /\ referencing(Lit("p1")) # <<>>
    /\ Len(getTasksByProject(loadTasks(Gateway, now), Lit("p1"))) > 0

(***************************************************************************)
(* Claims about the fields of the tasks held                               *)
(***************************************************************************)

\* C27: every task's dueDate is null or a valid instant: a dueDate string that does not
\* parse to a valid date is rejected by the constructor, also through fromJSON when
\* stored records are loaded, so no task of the repository holds an invalid date.
C27_DueDateNullOrValid ==
    \A i \in 1..Len(taskService._tasks) :
        \/ taskService._tasks[i].dueDate = Null
        \/ DOMAIN taskService._tasks[i].dueDate = {"date"}

\* the ids of a list of tasks or projects are pairwise different
uniqueIds(instances) ==
    \A i, j \in 1..Len(instances) : instances[i].id = instances[j].id => i = j

\* C29: ids are unique within each repository: after initialization from any stored
\* content no two tasks of the task collection share an id and no two projects of the
\* project list share an id.
C29_IdsUniqueAfterInitialization ==
    /\ uniqueIds(initializeTasks(Gateway, TaskServiceConstructed, now).svc._tasks)
    /\ uniqueIds(initializeProjects(Gateway, ProjectServiceConstructed, <<"ok", "ok">>,
                                    ServiceKeyOrder, now).svc._projects)

(***************************************************************************)
(* Checklist operations of Task and of TaskService                          *)
(***************************************************************************)

\* `!text || typeof text !== 'string' || text.trim() === ''`
textRequired(text) == Falsy(text) \/ ~IsString(text) \/ trim(text) = Str(<<>>)

\* task.addChecklistItem(text); u is the index of the uuid drawn
TaskAddChecklistItem(task, text, u, t) ==
    IF textRequired(text)
    THEN [task |-> task, threw |-> TRUE, error |-> "Checklist item text is required"]
    ELSE [task |-> [task EXCEPT
                      !.checklist.array =
                          Append(@, [id |-> Uuid(u), text |-> trim(text),
                                     completed |-> Bool(FALSE)]),
                      !.updatedAt = Date(t)],
          threw |-> FALSE, error |-> ""]

\* the item with updates.text and updates.completed assigned where they are given
itemUpdated(item, updates) ==
    [item EXCEPT
       !.text = IF Prop(updates, "text") # Undefined THEN trim(updates.text) ELSE @,
       !.completed = IF Prop(updates, "completed") # Undefined
                     THEN Bool(~Falsy(updates.completed)) ELSE @]

\* as TaskUpdateChecklistItem, but completed is assigned before the text is validated
TaskUpdateChecklistItem_assignsCompletedFirst(task, itemId, updates, t) ==
    LET index == findIndex(task.checklist.array, itemId) IN
    IF index = 0
    THEN [task |-> task, threw |-> TRUE, error |-> "Checklist item not found"]
    ELSE IF Prop(updates, "text") # Undefined /\ textRequired(updates.text)
    THEN [task |-> [task EXCEPT
                      !.checklist.array[index] =
                          itemUpdated(@, [f \in DOMAIN updates \ {"text"} |-> updates[f]])],
          threw |-> TRUE, error |-> "Checklist item text is required"]
    ELSE [task |-> [task EXCEPT !.checklist.array[index] = itemUpdated(@, updates),
                                !.updatedAt = Date(t)],
          threw |-> FALSE, error |-> ""]

\* task.updateChecklistItem(itemId, updates): the item is looked up by id, the text is
\* validated before anything is assigned, updatedAt is set at the end
TaskUpdateChecklistItem(task, itemId, updates, t) ==
    LET index == findIndex(task.checklist.array, itemId) IN
    IF index = 0
    THEN [task |-> task, threw |-> TRUE, error |-> "Checklist item not found"]
    ELSE IF Prop(updates, "text") # Undefined /\ textRequired(updates.text)
    THEN [task |-> task, threw |-> TRUE, error |-> "Checklist item text is required"]
    ELSE [task |-> [task EXCEPT !.checklist.array[index] = itemUpdated(@, updates),
                                !.updatedAt = Date(t)],
          threw |-> FALSE, error |-> ""]

\* as TaskRemoveChecklistItem, but updatedAt is left as it was
TaskRemoveChecklistItem_keepsUpdatedAt(task, itemId, t) ==
    LET index == findIndex(task.checklist.array, itemId) IN
    IF index = 0
    THEN [task |-> task, threw |-> TRUE, error |-> "Checklist item not found"]
    ELSE [task |-> [task EXCEPT !.checklist.array = splice(@, index)],
          threw |-> FALSE, error |-> ""]

\* task.removeChecklistItem(itemId)
TaskRemoveChecklistItem(task, itemId, t) ==
    LET index == findIndex(task.checklist.array, itemId) IN
    IF index = 0
    THEN [task |-> task, threw |-> TRUE, error |-> "Checklist item not found"]
    ELSE [task |-> [task EXCEPT !.checklist.array = splice(@, index),
                                !.updatedAt = Date(t)],
          threw |-> FALSE, error |-> ""]

\* the uuids of the checklist items of the tasks held
itemUuids(tasks) ==
    {id.uuid : id \in {x \in UNION {{tasks[i].checklist.array[j].id :
                                        j \in 1..Len(tasks[i].checklist.array)} :
                                    i \in 1..Len(tasks)} : DOMAIN x = {"uuid"}}}

\* uuidv4() for a checklist item: the first index in use nowhere
freshItemUuid(g, tasks) ==
    CHOOSE n \in 1..(Cardinality(usedUuids(g, tasks) \cup itemUuids(tasks)) + 1) :
        /\ n \notin usedUuids(g, tasks) \cup itemUuids(tasks)
        /\ \A m \in 1..(n - 1) : m \in usedUuids(g, tasks) \cup itemUuids(tasks)

\* the try block of the checklist operations of TaskService: the outcome done of the
\* task's own operation on the task at index, which works on the task held, then the
\* save
checklistSaved(r, index, done, w, ord) ==
    IF done.threw
    THEN [error |-> done.error]
         @@ rejects([r EXCEPT !.svc._tasks[index] = done.task])
    ELSE LET saved == _saveTasks(r, [r.svc._tasks EXCEPT ![index] = done.task], w, ord) IN
         [error |-> IF saved.threw THEN "Failed to save tasks to storage" ELSE ""] @@ saved

\* addChecklistItem(taskId, itemText) once the service is initialized (state r)
addChecklistItemIn(r, taskId, itemText, w, ord, t) ==
    IF Falsy(taskId) THEN [error |-> "Task ID is required"] @@ rejects(r)
    ELSE IF textRequired(itemText)
    THEN [error |-> "Checklist item text is required"] @@ rejects(r)
    ELSE IF findIndex(r.svc._tasks, taskId) = 0
    THEN [error |-> "Task not found"] @@ rejects(r)
    ELSE checklistSaved(r, findIndex(r.svc._tasks, taskId),
                        TaskAddChecklistItem(r.svc._tasks[findIndex(r.svc._tasks, taskId)],
                                             itemText,
                                             freshItemUuid(r.g, r.svc._tasks), t),
                        w, ord)

addChecklistItem(g, svc, taskId, itemText, w, ord, t) ==
    addChecklistItemIn(initializeTasks(g, svc, t), taskId, itemText, w, ord, t)

\* updateChecklistItem(taskId, itemId, updates) once the service is initialized
updateChecklistItemIn(r, taskId, itemId, updates, w, ord, t) ==
    IF Falsy(taskId) THEN [error |-> "Task ID is required"] @@ rejects(r)
    ELSE IF Falsy(itemId) THEN [error |-> "Checklist item ID is required"] @@ rejects(r)
    ELSE IF findIndex(r.svc._tasks, taskId) = 0
    THEN [error |-> "Task not found"] @@ rejects(r)
    ELSE checklistSaved(r, findIndex(r.svc._tasks, taskId),
                        TaskUpdateChecklistItem(
                            r.svc._tasks[findIndex(r.svc._tasks, taskId)],
                            itemId, updates, t),
                        w, ord)

updateChecklistItem(g, svc, taskId, itemId, updates, w, ord, t) ==
    updateChecklistItemIn(initializeTasks(g, svc, t), taskId, itemId, updates, w, ord, t)

\* removeChecklistItem(taskId, itemId) once the service is initialized
removeChecklistItemIn(r, taskId, itemId, w, ord, t) ==
    IF Falsy(taskId) THEN [error |-> "Task ID is required"] @@ rejects(r)
    ELSE IF Falsy(itemId) THEN [error |-> "Checklist item ID is required"] @@ rejects(r)
    ELSE IF findIndex(r.svc._tasks, taskId) = 0
    THEN [error |-> "Task not found"] @@ rejects(r)
    ELSE checklistSaved(r, findIndex(r.svc._tasks, taskId),
                        TaskRemoveChecklistItem(
                            r.svc._tasks[findIndex(r.svc._tasks, taskId)], itemId, t),
                        w, ord)

removeChecklistItem(g, svc, taskId, itemId, w, ord, t) ==
    removeChecklistItemIn(initializeTasks(g, svc, t), taskId, itemId, w, ord, t)

MaxItems == 2       \* longest checklist a task gets

StoredListed ==
    [StoredFirst EXCEPT
       !.id = Lit("t3"), !.title = Str(<<"L">>),
       !.checklist = [array |-> <<[id |-> Lit("c1"), text |-> Str(<<"x">>),
                                   completed |-> Bool(FALSE)]>>]]

\* the store holds a task with a checklist when the service starts
InitChecklist ==
    /\ \E tasks \in {<<StoredListed>>, <<StoredFirst, StoredListed>>,
                     <<StoredListed, StoredMisdated>>} :
          localStorage = [k \in FullKeys |->
                             IF k = keys.tasks THEN JSONstringify([array |-> tasks])
                             ELSE Null]
    /\ _fallbackStorage = <<>>
    /\ _isAvailable = TRUE
    /\ _quotaExceeded = FALSE
    /\ _usingFallback = FALSE
    /\ now = 2
    /\ call = [op |-> "constructor"]
    /\ lastSaved = NothingSaved
    /\ writeLog = {}
    /\ projectService = ProjectServiceConstructed
    /\ taskService = TaskServiceConstructed

\* item texts callers pass to addChecklistItem
ItemTexts == {Str(<<"y">>), Str(<<" ">>)}

\* updates callers pass to updateChecklistItem
ItemUpdates ==
    {[text |-> Str(<<" ", "z">>)],
     [completed |-> Bool(TRUE)],
     [text |-> Str(<<>>), completed |-> Bool(TRUE)],
     [text |-> Str(<<"z">>), completed |-> Bool(TRUE)]}

\* item ids callers pass: those of the items held, and an unknown one
ItemIds ==
    UNION {{taskService._tasks[i].checklist.array[j].id :
               j \in 1..Len(taskService._tasks[i].checklist.array)} :
           i \in 1..Len(taskService._tasks)}
    \cup {Lit("c9")}

AddChecklistItem(taskId, itemText, w) ==
    LET r == addChecklistItem(Gateway, taskService, taskId, itemText, w,
                              ServiceKeyOrder, now)
    IN  /\ \A i \in 1..Len(r.svc._tasks) : Len(r.svc._tasks[i].checklist.array) <= MaxItems
        /\ TasksBecome("addChecklistItem", [taskId |-> taskId, itemText |-> itemText],
                       r, r.error)

UpdateChecklistItem(taskId, itemId, updates, w) ==
    LET r == updateChecklistItem(Gateway, taskService, taskId, itemId, updates, w,
                                 ServiceKeyOrder, now)
    IN  TasksBecome("updateChecklistItem",
                    [taskId |-> taskId, itemId |-> itemId, updates |-> updates],
                    r, r.error)

RemoveChecklistItem(taskId, itemId, w) ==
    LET r == removeChecklistItem(Gateway, taskService, taskId, itemId, w,
                                 ServiceKeyOrder, now)
    IN  TasksBecome("removeChecklistItem", [taskId |-> taskId, itemId |-> itemId],
                    r, r.error)

NextChecklist ==
    \/ InitializeTasks
    \/ \E taskId \in TaskIds, itemText \in ItemTexts, w \in ServicePlans :
          AddChecklistItem(taskId, itemText, w)
    \/ \E taskId \in TaskIds, itemId \in ItemIds, updates \in ItemUpdates,
          w \in ServicePlans : UpdateChecklistItem(taskId, itemId, updates, w)
    \/ \E taskId \in TaskIds, itemId \in ItemIds, w \in ServicePlans :
          RemoveChecklistItem(taskId, itemId, w)
    \/ \E taskId \in TaskIds, updates \in TaskUpdates, w \in ServicePlans :
          UpdateTask(taskId, updates, w)
    \/ \E taskId \in TaskIds, w \in ServicePlans : ToggleTaskCompletion(taskId, w)
    \/ \E taskId \in TaskIds, w \in ServicePlans :
          MoveTaskToProject(taskId, Lit("p1"), w)

SpecChecklist == InitChecklist /\ [][NextChecklist]_vars

\* the operations of the task repository that change a task held
TaskMutations ==
    {"updateTask", "toggleTaskCompletion", "moveTaskToProject", "addChecklistItem",
     "updateChecklistItem", "removeChecklistItem"}

\* C28: a task's id and createdAt never change after creation, and its updatedAt never
\* decreases and is refreshed by every successful mutation, across updateTask,
\* toggleTaskCompletion, moveTaskToProject and the checklist operations: every task
\* keeps its place, id and createdAt, its updatedAt does not go back, and a call that
\* resolved leaves exactly one task changed, with updatedAt the time of the call.
C28_IdentityKeptUpdatedAtRefreshed ==
    [][/\ Len(taskService'._tasks) = Len(tasksHeld)
       /\ \A i \in 1..Len(tasksHeld) :
             /\ taskService'._tasks[i].id = tasksHeld[i].id
             /\ taskService'._tasks[i].createdAt = tasksHeld[i].createdAt
             /\ taskService'._tasks[i].updatedAt.date >= tasksHeld[i].updatedAt.date
       /\ call'.op \in TaskMutations /\ ~call'.threw
          => \E i \in 1..Len(tasksHeld) :
                /\ taskService'._tasks[i].updatedAt = Date(now)
                /\ tasksHeld[i].updatedAt.date < now
                /\ \A j \in 1..Len(tasksHeld) :
                      j # i => taskService'._tasks[j] = tasksHeld[j]]_vars

\* after three calls, the last of them a removeChecklistItem that resolved and left
\* task t3 without items: the task holds its stored createdAt, and the time of that
\* call as updatedAt
C28_Witness ==
    /\ call.op = "removeChecklistItem"
    /\ ~call.threw
    /\ now = MaxClock
    /\ \E i \in 1..Len(taskService._tasks) :
          /\ taskService._tasks[i].id = Lit("t3")
          /\ taskService._tasks[i].createdAt = Date(1)
          /\ taskService._tasks[i].updatedAt = Date(MaxClock - 1)
          /\ taskService._tasks[i].checklist.array = <<>>

\* the task the call's taskId refers to, among the tasks held before the call
referred(arg) == tasksHeld[findIndex(tasksHeld, arg.taskId)]

\* C30: checklist update and remove operate by item id: with an id that no checklist
\* item of the task has, updateChecklistItem and removeChecklistItem fail with
\* 'Checklist item not found' and leave the task's checklist and updatedAt unchanged;
\* an update with invalid text changes neither the text nor the completed flag.
C30_ChecklistByItemId ==
    [][/\ /\ call'.op \in {"updateChecklistItem", "removeChecklistItem"}
          /\ findIndex(tasksHeld, call'.arg.taskId) # 0
          /\ findIndex(referred(call'.arg).checklist.array, call'.arg.itemId) = 0
          => /\ call'.threw
             /\ call'.ret = "Checklist item not found"
             /\ taskService'._tasks = tasksHeld
       /\ /\ call'.op = "updateChecklistItem"
          /\ findIndex(tasksHeld, call'.arg.taskId) # 0
          /\ findIndex(referred(call'.arg).checklist.array, call'.arg.itemId) # 0
          /\ "text" \in DOMAIN call'.arg.updates
          /\ textRequired(call'.arg.updates.text)
          => /\ call'.threw
             /\ call'.ret = "Checklist item text is required"
             /\ taskService'._tasks = tasksHeld]_vars

\* updateChecklistItem('t3', 'c9', ...) was rejected as not found after an item was
\* added to t3: the checklist holds the stored item and the added one, unchanged
C30_Witness ==
    /\ call.op = "updateChecklistItem"
    /\ call.arg.taskId = Lit("t3")
    /\ call.arg.itemId = Lit("c9")
    /\ call.threw
    /\ call.ret = "Checklist item not found"
    /\ \E i \in 1..Len(taskService._tasks) :
          /\ taskService._tasks[i].id = Lit("t3")
          /\ Len(taskService._tasks[i].checklist.array) = 2
          /\ taskService._tasks[i].checklist.array[1] =
                 [id |-> Lit("c1"), text |-> Str(<<"x">>), completed |-> Bool(FALSE)]
          /\ taskService._tasks[i].updatedAt.date < now - 1

(***************************************************************************)
(* Bulk operations of TaskService                                           *)
(***************************************************************************)

\* the state in which the next updateTask / deleteTask of a bulk loop starts
nextCall(r) == [r EXCEPT !.threw = FALSE, !.saveThrew = FALSE]

\* what a bulk operation returns from the ids that resolved and those that rejected
bulkResult(r, done, errors) ==
    [g |-> r.g, svc |-> r.svc, threw |-> FALSE, writes |-> r.writes,
     saveThrew |-> FALSE,
     ret |-> [done |-> done, errors |-> errors, success |-> Len(errors) = 0]]

\* as bulkUpdateLoop, but the loop ends at the first id whose update rejects
RECURSIVE bulkUpdateLoop_stopsAtFailure(_, _, _, _, _, _, _, _)
bulkUpdateLoop_stopsAtFailure(r, taskIds, updates, done, errors, w, ord, t) ==
    IF taskIds = <<>> THEN bulkResult(r, done, errors)
    ELSE LET one == updateTaskIn(nextCall(r), Head(taskIds), updates, w, ord, t) IN
         IF one.threw THEN bulkResult(one, done, Append(errors, Head(taskIds)))
         ELSE bulkUpdateLoop_stopsAtFailure(one, Tail(taskIds), updates,
                                            Append(done, Head(taskIds)), errors,
                                            w, ord, t)

\* the loop of bulkUpdateTasks: updateTask for every id in turn, a rejection is
\* recorded and the loop goes on
RECURSIVE bulkUpdateLoop(_, _, _, _, _, _, _, _)
bulkUpdateLoop(r, taskIds, updates, done, errors, w, ord, t) ==
    IF taskIds = <<>> THEN bulkResult(r, done, errors)
    ELSE LET one == updateTaskIn(nextCall(r), Head(taskIds), updates, w, ord, t) IN
         bulkUpdateLoop(one, Tail(taskIds), updates,
                        IF one.threw THEN done ELSE Append(done, Head(taskIds)),
                        IF one.threw THEN Append(errors, Head(taskIds)) ELSE errors,
                        w, ord, t)

\* the loop of bulkDeleteTasks
RECURSIVE bulkDeleteLoop(_, _, _, _, _, _)
bulkDeleteLoop(r, taskIds, done, errors, w, ord) ==
    IF taskIds = <<>> THEN bulkResult(r, done, errors)
    ELSE LET one == deleteTaskIn(nextCall(r), Head(taskIds), w, ord) IN
         bulkDeleteLoop(one, Tail(taskIds),
                        IF one.threw THEN done ELSE Append(done, Head(taskIds)),
                        IF one.threw THEN Append(errors, Head(taskIds)) ELSE errors,
                        w, ord)

\* `!Array.isArray(taskIds) || taskIds.length === 0`
idsRequired(taskIds) == ~IsArray(taskIds) \/ taskIds.array = <<>>

\* bulkUpdateTasks(taskIds, updates)
bulkUpdateTasks(g, svc, taskIds, updates, w, ord, t) ==
    IF idsRequired(taskIds) THEN [ret |-> Null] @@ rejects(initializeTasks(g, svc, t))
    ELSE bulkUpdateLoop(initializeTasks(g, svc, t), taskIds.array, updates, <<>>, <<>>,
                        w, ord, t)

\* bulkDeleteTasks(taskIds)
bulkDeleteTasks(g, svc, taskIds, w, ord, t) ==
    IF idsRequired(taskIds) THEN [ret |-> Null] @@ rejects(initializeTasks(g, svc, t))
    ELSE bulkDeleteLoop(initializeTasks(g, svc, t), taskIds.array, <<>>, <<>>, w, ord)

MaxBulk == 3        \* most ids handed to a bulk operation

\* what callers pass as taskIds: up to MaxBulk ids of tasks held or unknown, an id
\* more than once included, or no array at all
BulkIds == {Null} \cup {[array |-> s] : s \in SeqsUpTo(TaskIds, MaxBulk)}

BulkUpdateTasks(taskIds, updates, w) ==
    LET r == bulkUpdateTasks(Gateway, taskService, taskIds, updates, w,
                             ServiceKeyOrder, now)
    IN  TasksBecome("bulkUpdateTasks", [taskIds |-> taskIds, updates |-> updates],
                    r, r.ret)

BulkDeleteTasks(taskIds, w) ==
    LET r == bulkDeleteTasks(Gateway, taskService, taskIds, w, ServiceKeyOrder, now)
    IN  TasksBecome("bulkDeleteTasks", [taskIds |-> taskIds], r, r.ret)

NextBulk ==
    \/ InitializeTasks
    \/ \E taskIds \in BulkIds, updates \in TaskUpdates, w \in ServicePlans :
          BulkUpdateTasks(taskIds, updates, w)
    \/ \E taskIds \in BulkIds, w \in ServicePlans : BulkDeleteTasks(taskIds, w)

SpecBulk == InitTasks /\ [][NextBulk]_vars

\* how often id occurs in a list of ids
occurrences(ids, id) == Cardinality({i \in 1..Len(ids) : ids[i] = id})

\* the update is in place on the task with this id: every field given holds the value
\* given
applied(tasks, id, updates) ==
    /\ findIndex(tasks, id) # 0
    /\ \A f \in DOMAIN updates : tasks[findIndex(tasks, id)][f] = trim(updates[f])

\* C26: bulkUpdateTasks and bulkDeleteTasks process every id even after a failure:
\* every input id, as often as it was given, is reported either among the updated /
\* deleted tasks or among the errors, so the two lengths sum to the number of ids;
\* success is true exactly when errors is empty; and what succeeded stays applied.
C26_BulkReportsEveryId ==
    [][call'.op \in {"bulkUpdateTasks", "bulkDeleteTasks"} /\ ~call'.threw
       => /\ Len(call'.ret.done) + Len(call'.ret.errors) = Len(call'.arg.taskIds.array)
          /\ \A id \in TaskIds :
                occurrences(call'.ret.done, id) + occurrences(call'.ret.errors, id)
                    = occurrences(call'.arg.taskIds.array, id)
          /\ call'.ret.success = (call'.ret.errors = <<>>)
          /\ \A i \in 1..Len(call'.ret.done) :
                IF call'.op = "bulkDeleteTasks"
                THEN findIndex(taskService'._tasks, call'.ret.done[i]) = 0
                ELSE applied(taskService'._tasks, call'.ret.done[i], call'.arg.updates)
      ]_vars

\* a bulk update of three ids has updated a task, failed for an unknown id after it and
\* updated another task after that
C26_Witness ==
    /\ call.op = "bulkUpdateTasks"
    /\ ~call.threw
    /\ Len(call.arg.taskIds.array) = 3
    /\ call.arg.taskIds.array[2] = Lit("t9")
    /\ call.ret.errors = <<Lit("t9")>>
    /\ call.ret.done = <<call.arg.taskIds.array[1], call.arg.taskIds.array[3]>>
    /\ ~call.ret.success
    /\ \A i \in 1..Len(taskService._tasks) : taskService._tasks[i].title = Str(<<"N">>)
    /\ Len(taskService._tasks) = 2

(***************************************************************************)
(* createTask calls in flight at once                                      *)
(*                                                                         *)
(* An async function runs without interruption up to its next await.  A    *)
(* createTask call therefore runs in three pieces: up to                   *)
(* `await this._ensureInitialized()` (initialize() holds no await, so the  *)
(* service is initialized when the call suspends), from there up to        *)
(* `await this._saveTasks()` (the body of _saveTasks, the save itself,     *)
(* runs when it is called), and from there to the return.  Pieces of       *)
(* different calls interleave in any order.  The calls in flight are kept  *)
(* in call.calls, each with the await it is suspended at.                  *)
(***************************************************************************)

MaxCalls == 3       \* most createTask calls in flight

\* the service state as a piece of a call finds it
running == [g |-> Gateway, svc |-> taskService, threw |-> FALSE, writes |-> {},
            saveThrew |-> FALSE]

\* where the call is once the outcome done of validation, push and save is there: a
\* rejected validation settles the call, anything else leaves it at the second await
suspended(done) ==
    [pc |-> IF done.threw /\ ~done.saveThrew THEN "settled" ELSE "awaitSaved"] @@ done

\* as createTaskStep, but the save is made after the second await instead of before
createTaskStep_savesAfterAwait(c, r, w, ord, t) ==
    IF c.pc = "awaitInitialized"
    THEN LET validation == validateTaskData(c.taskData) IN
         IF ~validation.valid \/ TaskThrows(validation.data)
         THEN [pc |-> "settled"] @@ rejects(r)
         ELSE [pc |-> "awaitSaved"]
              @@ [r EXCEPT !.svc._tasks =
                     Append(@, Task(validation.data, freshUuid(r.g, r.svc._tasks), t))]
    ELSE [pc |-> "settled"] @@ _saveTasks(r, r.svc._tasks, w, ord)

\* the piece of createTask that runs when call c resumes at the await it is
\* suspended at: after `await this._ensureInitialized()` the validation, the push and
\* the save; after `await this._saveTasks()` the return, or the rejection when the
\* save threw
createTaskStep(c, r, w, ord, t) ==
    IF c.pc = "awaitInitialized"
    THEN suspended(createTaskIn(r, c.taskData, w, ord, t))
    ELSE [pc |-> "settled"] @@ [r EXCEPT !.threw = c.threw]

\* the store holds no tasks or one task when the service starts
InitConcurrent ==
    /\ \E tasks \in {Null, JSONstringify([array |-> <<StoredFirst>>])} :
          localStorage = [k \in FullKeys |-> IF k = keys.tasks THEN tasks ELSE Null]
    /\ _fallbackStorage = <<>>
    /\ _isAvailable = TRUE
    /\ _quotaExceeded = FALSE
    /\ _usingFallback = FALSE
    /\ now = 2
    /\ call = [op |-> "constructor", calls |-> <<>>]
    /\ lastSaved = NothingSaved
    /\ writeLog = {}
    /\ projectService = ProjectServiceConstructed
    /\ taskService = TaskServiceConstructed

\* a caller calls createTask(taskData): the call runs up to its first await
CallCreateTask(taskData) ==
    /\ Len(call.calls) < MaxCalls
    /\ taskService' = initializeTasks(Gateway, taskService, now).svc
    /\ call' = [op |-> "createTask",
                calls |-> Append(call.calls,
                                 [pc |-> "awaitInitialized", taskData |-> taskData,
                                  threw |-> FALSE, held |-> 0])]
    /\ UNCHANGED <<localStorage, _fallbackStorage, _isAvailable, _quotaExceeded,
                   _usingFallback, now, lastSaved, writeLog, projectService>>

\* call i has run up to its next await, or to its end, with outcome r
Resumed(i, r) ==
    /\ Becomes(r.g)
    /\ taskService' = r.svc
    /\ call' = [call EXCEPT !.calls[i].pc = r.pc,
                            !.calls[i].threw = r.threw,
                            !.calls[i].held = IF @ = 0 /\ ~r.threw /\ r.pc = "awaitSaved"
                                              THEN Len(r.svc._tasks) ELSE @]
    /\ UNCHANGED <<now, lastSaved, writeLog, projectService>>

ResumeCreateTask(i, w) ==
    /\ call.calls[i].pc # "settled"
    /\ Resumed(i, createTaskStep(call.calls[i], running, w, ServiceKeyOrder, now))

NextConcurrent ==
    \/ \E taskData \in {[title |-> Str(<<"N">>)], [title |-> Str(<<>>)],
                        [title |-> Str(<<"M">>), projectId |-> Lit("p1")]} :
          CallCreateTask(taskData)
    \/ \E i \in 1..Len(call.calls), w \in ServicePlans : ResumeCreateTask(i, w)

SpecConcurrent == InitConcurrent /\ [][NextConcurrent]_vars

\* the calls that have pushed their task
pushed == {i \in 1..Len(call.calls) : call.calls[i].held # 0}

\* the tasks created by calls: those with a generated id
created == SelectSeq(taskService._tasks, LAMBDA task : DOMAIN task.id = {"uuid"})

\* C22: with createTask calls in flight at once and interleaving at their awaits, no
\* piece of another call runs between a call's push and its save: whenever a piece has
\* run, the stored task list is the list held; every call that got past validation
\* has left exactly one new task, so N calls leave N new tasks; and once all calls
\* have settled the stored list equals the list held.
C22_ConcurrentCreatesKeepListSaved ==
    taskService._initialized
    => /\ identities(loadTasks(Gateway, now)) = identities(taskService._tasks)
       /\ Len(created) = Cardinality(pushed)
       /\ \A i \in pushed :
             /\ call.calls[i].held <= Len(taskService._tasks)
             /\ taskService._tasks[call.calls[i].held].title = trim(call.calls[i].taskData.title)
             /\ \A j \in pushed : call.calls[j].held = call.calls[i].held => i = j
       /\ \A i \in 1..Len(call.calls) : ~call.calls[i].threw => call.calls[i].held # 0
                                           \/ call.calls[i].pc = "awaitInitialized"

\* three calls were in flight together and have all settled, the third one resuming
\* before the first: three new tasks are held and stored
C22_Witness ==
    /\ Len(call.calls) = MaxCalls
    /\ \A i \in 1..MaxCalls : call.calls[i].pc = "settled" /\ ~call.calls[i].threw
    /\ call.calls[3].held < call.calls[1].held
    /\ Len(created) = MaxCalls
    /\ Len(loadTasks(Gateway, now)) = Len(taskService._tasks)

(***************************************************************************)
(* Checklist progress                                                      *)
(***************************************************************************)

\* Math.round(n / d * 100) for n >= 0 and d > 0: halves go up
roundedPercent(n, d) == (200 * n + d) \div (2 * d)

\* as getChecklistProgress, but the percentage is cut instead of rounded
getChecklistProgress_truncates(task) ==
    LET items == task.checklist.array
        completed == Len(SelectSeq(items, LAMBDA item : ~Falsy(item.completed)))
    IN  IF Len(items) = 0 THEN [completed |-> 0, total |-> 0, percentage |-> 0]
        ELSE [completed |-> completed, total |-> Len(items),
              percentage |-> (100 * completed) \div Len(items)]

\* task.getChecklistProgress()
getChecklistProgress(task) ==
    LET items == task.checklist.array
        completed == Len(SelectSeq(items, LAMBDA item : ~Falsy(item.completed)))
    IN  IF Len(items) = 0 THEN [completed |-> 0, total |-> 0, percentage |-> 0]
        ELSE [completed |-> completed, total |-> Len(items),
              percentage |-> roundedPercent(completed, Len(items))]

StoredTriple ==
    [StoredFirst EXCEPT
       !.id = Lit("t5"), !.title = Str(<<"T">>),
       !.checklist = [array |-> <<[id |-> Lit("c1"), text |-> Str(<<"x">>),
                                   completed |-> Bool(TRUE)],
                                  [id |-> Lit("c2"), text |-> Str(<<"y">>),
                                   completed |-> Bool(FALSE)],
                                  [id |-> Lit("c3"), text |-> Str(<<"z">>),
                                   completed |-> Bool(FALSE)]>>]]

\* the store holds a task with one checklist item or with three when the service starts
InitProgress ==
    /\ \E tasks \in {<<StoredListed>>, <<StoredTriple>>} :
          localStorage = [k \in FullKeys |->
                             IF k = keys.tasks THEN JSONstringify([array |-> tasks])
                             ELSE Null]
    /\ _fallbackStorage = <<>>
    /\ _isAvailable = TRUE
    /\ _quotaExceeded = FALSE
    /\ _usingFallback = FALSE
    /\ now = 2
    /\ call = [op |-> "constructor"]
    /\ lastSaved = NothingSaved
    /\ writeLog = {}
    /\ projectService = ProjectServiceConstructed
    /\ taskService = TaskServiceConstructed

\* a caller reads the progress of the task held at index
GetChecklistProgress(index) ==
    /\ call' = [op |-> "getChecklistProgress", arg |-> index, threw |-> FALSE,
                ret |-> getChecklistProgress(taskService._tasks[index])]
    /\ UNCHANGED <<localStorage, _fallbackStorage, _isAvailable, _quotaExceeded,
                   _usingFallback, now, lastSaved, writeLog, projectService,
                   taskService>>

NextProgress ==
    \/ InitializeTasks
    \/ \E taskId \in TaskIds, itemText \in ItemTexts, w \in ServicePlans :
          AddChecklistItem(taskId, itemText, w)
    \/ \E taskId \in TaskIds, itemId \in ItemIds, updates \in ItemUpdates,
          w \in ServicePlans : UpdateChecklistItem(taskId, itemId, updates, w)
    \/ \E taskId \in TaskIds, itemId \in ItemIds, w \in ServicePlans :
          RemoveChecklistItem(taskId, itemId, w)
    \/ \E index \in 1..Len(taskService._tasks) : GetChecklistProgress(index)

SpecProgress == InitProgress /\ [][NextProgress]_vars

\* the completed items of the task held at index
completedItems(index) ==
    {j \in 1..Len(taskService._tasks[index].checklist.array) :
        taskService._tasks[index].checklist.array[j].completed = Bool(TRUE)}

\* p is n / d * 100 rounded to the nearest integer, a half going up
nearest(p, n, d) == 2 * p * d - d <= 200 * n /\ 200 * n < 2 * p * d + d

\* C31: after any sequence of checklist add, update and remove operations,
\* getChecklistProgress() returns completed = the number of completed items, total =
\* the number of items, completed <= total, and percentage = round(100 * completed /
\* total) within 0..100 when total > 0 and 0 when total is 0.
C31_ChecklistProgress ==
    call.op = "getChecklistProgress"
    => /\ call.ret.completed = Cardinality(completedItems(call.arg))
       /\ call.ret.total = Len(taskService._tasks[call.arg].checklist.array)
       /\ call.ret.completed <= call.ret.total
       /\ call.ret.percentage \in 0..100
       /\ IF call.ret.total = 0 THEN call.ret.percentage = 0
          ELSE nearest(call.ret.percentage, call.ret.completed, call.ret.total)

\* two of three items are completed after an update, and the progress read is 67
C31_Witness ==
    /\ call.op = "getChecklistProgress"
    /\ call.ret = [completed |-> 2, total |-> 3, percentage |-> 67]
    /\ now > 2

-----------------------------------------------------------------------------
(***************************************************************************)
(* Saves on a store that holds tasks, projects and other keys, each save   *)
(* recorded with the gateway it started from                               *)
(***************************************************************************)

\* the values a stored key may hold: a shorter and a longer one
StoredValues == {JSONstringify(v) : v \in SaveValues}

InitSaves ==
    /\ \E a \in {Null} \cup StoredValues, b \in {Null} \cup StoredValues,
          c \in {Null} \cup StoredValues :
          localStorage = [k \in FullKeys |->
                             IF k = keys.tasks THEN a
                             ELSE IF k = keys.projects THEN b
                             ELSE IF k = keys.settings THEN c
                             ELSE Null]
    /\ _fallbackStorage = <<>>
    /\ _isAvailable \in BOOLEAN
    /\ _quotaExceeded = FALSE
    /\ _usingFallback = FALSE
    /\ now = 1
    /\ call = [op |-> "constructor"]
    /\ lastSaved = NothingSaved
    /\ writeLog = {}
    /\ projectService = ProjectServiceConstructed
    /\ taskService = TaskServiceConstructed

\* the keys callers save under
SavedKeys == {<<"tasks">>, <<"projects">>, <<"settings">>, <<"test">>}

\* the state after save(key, data) has returned r
Saved(key, data, r) ==
    /\ Becomes(r.g)
    /\ call' = [op |-> "save", ret |-> r.ret, access |-> r.access,
                key |-> FullKey(key), data |-> data, writes |-> r.writes,
                before |-> [ls |-> localStorage, usingFallback |-> _usingFallback]]
    /\ writeLog' = writeLog \cup r.writes
    /\ UNCHANGED <<now, lastSaved>>
    /\ UNCHANGED services

SaveFrom(key, data, w, ord) == Saved(key, data, save(Gateway, key, data, w[1], w[2], ord))

NextSaves ==
    \/ \E key \in SavedKeys, data \in SaveValues :
          \E w \in PlansIf(_isAvailable /\ ~_usingFallback) : \E ord \in OrdersIf(w) :
             SaveFrom(key, data, w, ord)
    \/ \E key \in {<<"test">>} : Remove(key)

SpecSaves == InitSaves /\ [][NextSaves]_vars

\* the keys the last save found in the store and left out of it
evicted == {k \in FullKeys : call.before.ls[k] # Null /\ localStorage[k] = Null}

\* the last save hit a quota error on a usable store, so a cleanup ran
cleanedUp == call.op = "save" /\ call.access /\ "quota" \in call.writes

\* C32: a quota-triggered cleanup never removes the tasks key or the projects key
\* from the store, whatever their size and whatever other keys are present.
C32_CleanupKeepsTasksAndProjects ==
    cleanedUp => keys.tasks \notin evicted /\ keys.projects \notin evicted

\* a cleanup evicted a key while the tasks and the projects, the largest values of the
\* store, stayed
C32_Witness ==
    /\ cleanedUp
    /\ evicted # {}
    /\ call.key \notin {keys.tasks, keys.projects}
    /\ \A k \in {keys.tasks, keys.projects} :
          /\ localStorage[k] # Null
          /\ localStorage[k] = call.before.ls[k]
          /\ \A e \in evicted : length(localStorage[k]) > length(call.before.ls[e])

\* the non-essential keys the last save found in the store
nonEssential == {k \in FullKeys : call.before.ls[k] # Null /\ ~isEssential(k)}

\* no key that stayed is larger than a key that was evicted
largestFirst ==
    \A e \in evicted, k \in nonEssential \ evicted :
       length(call.before.ls[e]) >= length(call.before.ls[k])

\* at most a quarter of the non-essential keys was evicted
quarterAtMost == 4 * Cardinality(evicted) <= Cardinality(nonEssential)

\* C33: a quota-triggered cleanup evicts at most 25% of the non-essential namespaced
\* keys present in the store, choosing the largest ones first.
C33_CleanupEvictsQuarterLargestFirst ==
    cleanedUp => quarterAtMost /\ largestFirst

\* the last save found the gateway on the store and left it in Fallback
enteredFallback == call.op = "save" /\ ~call.before.usingFallback /\ _usingFallback

\* C34: when a save(k, v) fails on the store and the gateway enters Fallback, the
\* older value of k migrated from the store never overwrites the new one: after the
\* call the fallback map holds v for k and load(k) returns v.
C34_NewValueSurvivesMigration ==
    enteredFallback
    => /\ MapHas(_fallbackStorage, call.key)
       /\ MapGet(_fallbackStorage, call.key) = call.data
       /\ Loaded(call.key) = call.data

\* the save that entered Fallback found another value for its key in the store, which
\* is still there and was migrated with the other keys
C34_Witness ==
    /\ enteredFallback
    /\ call.before.ls[call.key] # Null
    /\ JSONparse(call.before.ls[call.key]) # call.data
    /\ localStorage[call.key] = call.before.ls[call.key]
    /\ Len(_fallbackStorage) > 1

\* the value of the last save is in the in-memory map and not in the store
onlyInMemory ==
    /\ call.op = "save"
    /\ MapHas(_fallbackStorage, call.key)
    /\ MapGet(_fallbackStorage, call.key) = call.data
    /\ localStorage[call.key] # JSONstringify(call.data)

\* C35: isUsingFallback() reports where data lives: whenever a save stored its value
\* only in the in-memory map (not in the underlying store), isUsingFallback() is true,
\* including when the store was found unavailable at construction.
C35_UsingFallbackReportsMemory == onlyInMemory => _usingFallback

-----------------------------------------------------------------------------
(***************************************************************************)
(* Per-project reads of the task repository                                *)
(***************************************************************************)

\* task.isOverdue() at instant t: a comparison with an Invalid Date is false
TaskIsOverdue(task, t) ==
    /\ ~Falsy(task.dueDate)
    /\ Falsy(task.completed)
    /\ DOMAIN task.dueDate = {"date"}
    /\ t > task.dueDate.date

\* the statistics of a list of tasks
statsOf(tasks, t) ==
    LET count(held) == Len(held)
        completed == count(SelectSeq(tasks, LAMBDA task : ~Falsy(task.completed)))
    IN  [total |-> Len(tasks),
         completed |-> completed,
         pending |-> count(SelectSeq(tasks, LAMBDA task : Falsy(task.completed))),
         overdue |-> count(SelectSeq(tasks, LAMBDA task : TaskIsOverdue(task, t))),
         byPriority |->
            [p \in {"high", "medium", "low"} |->
                count(SelectSeq(tasks, LAMBDA task : task.priority = Lit(p)))],
         withDueDate |-> count(SelectSeq(tasks, LAMBDA task : ~Falsy(task.dueDate))),
         withChecklist |->
            count(SelectSeq(tasks, LAMBDA task : Len(task.checklist.array) > 0)),
         completionRate |-> IF Len(tasks) > 0 THEN roundedPercent(completed, Len(tasks))
                            ELSE 0]

\* getTaskStats(projectId = null) on the list the initialized service holds: a falsy
\* projectId selects every task, any other one the tasks carrying it
getTaskStats(tasks, projectId, t) ==
    statsOf(IF Falsy(projectId) THEN tasks
            ELSE SelectSeq(tasks, LAMBDA task : task.projectId = projectId), t)

GetTaskStats(projectId) ==
    LET r == initializeTasks(Gateway, taskService, now) IN
    TasksBecome("getTaskStats", projectId, r, getTaskStats(r.svc._tasks, projectId, now))

NextStats ==
    \/ InitializeTasks
    \/ \E taskData \in TaskData, w \in ServicePlans : CreateTask(taskData, w)
    \/ \E taskId \in TaskIds, w \in ServicePlans : ToggleTaskCompletion(taskId, w)
    \/ \E taskId \in TaskIds, projectId \in TaskProjectIds \ {Undefined},
          w \in ServicePlans : MoveTaskToProject(taskId, projectId, w)
    \/ \E projectId \in TaskProjectIds \cup {Lit("p2")} : GetTaskStats(projectId)

SpecStats == InitTasks /\ [][NextStats]_vars

\* C36: the per-project read operations agree on project membership: for every
\* project id p, including 'default', getTaskStats(p).total equals the number of
\* tasks returned by getTasksByProject(p).
C36_StatsAgreeWithTasksByProject ==
    call.op = "getTaskStats" /\ call.arg # Undefined
    => call.ret.total = Len(getTasksByProject(taskService._tasks, call.arg))

-----------------------------------------------------------------------------
(***************************************************************************)
(* ProjectService operations in flight at once                             *)
(*                                                                         *)
(* Every operation starts with `await this._ensureInitialized()`.  Unlike  *)
(* TaskService.initialize, ProjectService.initialize awaits                *)
(* _ensureDefaultProject() before it sets _initialized, so a call started  *)
(* while another one is suspended there enters initialize() again and      *)
(* loads the list again.  A call runs in pieces, from one await to the     *)
(* next; a piece that ends at an await of a settled promise, or whose      *)
(* return settles the promise its caller awaits, puts the call's next      *)
(* piece at the end of the microtask queue.  Every call has one piece      *)
(* queued until it settles; the queue is served first in, first out, and   *)
(* a caller may start a call between any two pieces.  call.calls holds the *)
(* calls with the function each is suspended in, call.queue the queue.     *)
(***************************************************************************)

MaxProjectCalls == 4     \* most ProjectService calls in flight

\* the service state as a piece of a call finds it
runningProjects == [g |-> Gateway, svc |-> projectService, threw |-> FALSE,
                    writes |-> {}]

\* as enterInitialize, but the default project is created without a look at the list
enterInitialize_alwaysCreatesDefault(r, w, ord, t) ==
    IF r.svc._initialized THEN [pc |-> "operation", phase |-> "try"] @@ r
    ELSE [pc |-> "createDefault", phase |-> "try"]
         @@ _createDefaultProject(r.g, [r.svc EXCEPT !._projects = loadProjects(r.g, t)],
                                  w, ord, t)

\* the piece that runs when an operation is called: _ensureInitialized() returns at
\* once when the service is initialized; otherwise initialize() loads the list and
\* calls _ensureDefaultProject(), which returns when the list holds a default
\* project, and otherwise puts one in front, saves, and suspends in
\* _createDefaultProject at `await this._saveProjects()`
enterInitialize(r, w, ord, t) ==
    IF r.svc._initialized THEN [pc |-> "operation", phase |-> "try"] @@ r
    ELSE [pc |-> IF hasDefault(loadProjects(r.g, t)) THEN "initialize"
                 ELSE "createDefault",
          phase |-> "try"]
         @@ initializeFirst(r.g, r.svc, w, ord, t)

\* initialize() resumes after `await this._ensureDefaultProject()`: when that threw
\* in the try block, the catch block empties the list and calls it again; otherwise
\* (a throw in the catch block is logged) _initialized is set
initializeStep(c, r, w, ord, t) ==
    IF c.threw /\ c.phase = "try"
    THEN [pc |-> "createDefault", phase |-> "catch"]
         @@ _ensureDefaultProject(r.g, [r.svc EXCEPT !._projects = <<>>], w, ord, t)
    ELSE [pc |-> "ensureInitialized", phase |-> c.phase]
         @@ [r EXCEPT !.svc._initialized = TRUE]

\* where a createProject call is once the outcome done of check, push and save is
\* there: a rejected check settles the call, a push leaves it at `await
\* this._saveProjects()`
createProjectStep(c, r, done) ==
    [pc |-> IF Len(done.svc._projects) > Len(r.svc._projects) THEN "saved"
            ELSE "settled",
     phase |-> c.phase] @@ done

\* the piece that runs when call c resumes in the function it is suspended in
projectStep(c, r, w, ord, t) ==
    CASE c.pc = "createDefault" ->
            [pc |-> "ensureDefault", phase |-> c.phase] @@ [r EXCEPT !.threw = c.threw]
      [] c.pc = "ensureDefault" ->
            [pc |-> "initialize", phase |-> c.phase] @@ [r EXCEPT !.threw = c.threw]
      [] c.pc = "initialize" -> initializeStep(c, r, w, ord, t)
      [] c.pc = "ensureInitialized" -> [pc |-> "operation", phase |-> c.phase] @@ r
      [] c.pc = "operation" /\ c.op = "createProject" ->
            createProjectStep(c, r, createProjectIn(r, c.name, w, ord, t))
      [] c.pc = "operation" /\ c.op = "getAllProjects" ->
            [pc |-> "settled", phase |-> c.phase] @@ r
      [] c.pc = "saved" ->
            [pc |-> "settled", phase |-> c.phase] @@ [r EXCEPT !.threw = c.threw]

\* the store holds no projects, projects without a default one, or the default
\* project and another one, when the service starts; one of the others may carry a
\* createdAt that does not parse
InitConcurrentProjects ==
    /\ \E projects \in {Null}
                       \cup {JSONstringify([array |-> c]) :
                               c \in {<<StoredWork>>, <<StoredWork, StoredUndated>>,
                                      <<StoredDefault, StoredWork>>,
                                      <<StoredDefault, StoredUndated>>}} :
          localStorage = [k \in FullKeys |->
                             IF k = keys.projects THEN projects ELSE Null]
    /\ _fallbackStorage = <<>>
    /\ _isAvailable = TRUE
    /\ _quotaExceeded = FALSE
    /\ _usingFallback = FALSE
    /\ now = 2
    /\ call = [op |-> "constructor", calls |-> <<>>, queue |-> <<>>]
    /\ lastSaved = NothingSaved
    /\ writeLog = {}
    /\ projectService = ProjectServiceConstructed
    /\ taskService = TaskServiceConstructed

\* the error a createProject(name) that did not push rejects with
rejection(projects, name) ==
    IF validateProjectData([name |-> name]).valid
       /\ nameTaken(projects, validateProjectData([name |-> name]).data.name, Undefined)
    THEN "A project with this name already exists"
    ELSE "Project validation failed"

\* the identity of a project: the model's uuid is the first one not in use, so a
\* project that was dropped and a later one may share it; createdAt tells them apart
identity(project) == [id |-> project.id, createdAt |-> project.createdAt]

\* call i has run a piece with outcome r: it is queued again unless it settled; a
\* createProject call keeps the identity of the project it pushed and, when it
\* rejects, its error. The clock moves on when a project has been constructed.
Piece(i, c, r, queue) ==
    /\ Becomes(r.g)
    /\ projectService' = r.svc
    /\ call' =
          [op |-> c.op,
           calls |->
              [j \in 1..Max(i, Len(call.calls)) |->
                  IF j # i THEN call.calls[j]
                  ELSE [op |-> c.op, name |-> c.name, pc |-> r.pc, phase |-> r.phase,
                        threw |-> r.threw, started |-> c.started,
                        project |-> IF r.pc = "saved"
                                    THEN identity(r.svc._projects[Len(r.svc._projects)])
                                    ELSE c.project,
                        error |-> IF r.pc # "settled" \/ ~r.threw THEN ""
                                  ELSE IF c.pc = "saved"
                                  THEN "Failed to create project"
                                  ELSE rejection(projectService._projects, c.name)]],
           queue |-> IF r.pc = "settled" THEN queue ELSE Append(queue, i)]
    /\ now' = IF r.pc = "saved" THEN now + 1 ELSE now
    /\ UNCHANGED <<lastSaved, writeLog, taskService>>

\* a caller calls an operation: the call runs up to its first await
CallProject(op, name, w) ==
    /\ Len(call.calls) < MaxProjectCalls
    /\ Piece(Len(call.calls) + 1,
             [op |-> op, name |-> name, project |-> Null,
              started |-> [initialized |-> projectService._initialized,
                           settled |-> {j \in 1..Len(call.calls) :
                                           call.calls[j].pc = "settled"}]],
             enterInitialize(runningProjects, w, ServiceKeyOrder, now),
             call.queue)

\* the piece at the head of the microtask queue runs
Microtask(w) ==
    /\ call.queue # <<>>
    /\ Piece(Head(call.queue), call.calls[Head(call.queue)],
             projectStep(call.calls[Head(call.queue)], runningProjects, w,
                         ServiceKeyOrder, now),
             Tail(call.queue))

\* names callers pass: two that are equal ignoring case
ConcurrentNames == {Str(<<"V">>), Str(<<"v">>)}

NextConcurrentProjects ==
    \/ \E name \in ConcurrentNames, w \in ServicePlans :
          CallProject("createProject", name, w)
    \/ \E w \in ServicePlans : CallProject("getAllProjects", Null, w)
    \/ \E w \in ServicePlans : Microtask(w)

SpecConcurrentProjects == InitConcurrentProjects /\ [][NextConcurrentProjects]_vars

\* every call that was started has settled
allSettled ==
    /\ call.calls # <<>>
    /\ \A i \in 1..Len(call.calls) : call.calls[i].pc = "settled"

\* the createProject calls that resolved
resolved ==
    {i \in 1..Len(call.calls) :
        /\ call.calls[i].op = "createProject"
        /\ call.calls[i].pc = "settled"
        /\ ~call.calls[i].threw}

holds(projects, project) ==
    \E i \in 1..Len(projects) : identity(projects[i]) = project

duplicateRejected(i) ==
    call.calls[i].threw /\ call.calls[i].error = "A project with this name already exists"

\* the calls that were started before the repository was initialized
startedEarly == {i \in 1..Len(call.calls) : ~call.calls[i].started.initialized}

\* C37: lazy initialization is safe under concurrent first use: if several
\* operations are started before the repository is initialized and interleave at
\* await boundaries, then once all have settled exactly one project has id 'default'
\* and every project whose createProject (one of those operations) resolved is
\* present in the in-memory list and in the persisted list.
C37_LazyInitializationSafe ==
    allSettled
    => /\ Cardinality({i \in 1..Len(projectService._projects) :
                          projectService._projects[i].id = Lit("default")}) = 1
       /\ \A i \in resolved \cap startedEarly :
             /\ holds(projectService._projects, call.calls[i].project)
             /\ holds(loadProjects(Gateway, now), call.calls[i].project)

\* four calls were started before the repository was initialized, on stored projects
\* without a default one; the later ones entered initialize() while the first was
\* suspended in it; a createProject call resolved, another one was rejected as a
\* duplicate, and the stored project is still held
C37_Witness ==
    /\ allSettled
    /\ Len(call.calls) = MaxProjectCalls
    /\ startedEarly = 1..MaxProjectCalls
    /\ resolved # {}
    /\ \E i \in 1..MaxProjectCalls : duplicateRejected(i)
    /\ \E i \in 1..Len(projectService._projects) :
          projectService._projects[i].id = Lit("p1")

\* the pairs of createProject calls with names equal ignoring case, the second one
\* started before the first one settled, that have both settled; no third call was
\* given that name
racing ==
    {p \in (1..Len(call.calls)) \X (1..Len(call.calls)) :
        /\ p[1] < p[2]
        /\ \A i \in {p[1], p[2]} :
              call.calls[i].op = "createProject" /\ call.calls[i].pc = "settled"
        /\ toLowerCase(call.calls[p[1]].name) = toLowerCase(call.calls[p[2]].name)
        /\ p[1] \notin call.calls[p[2]].started.settled
        /\ \A j \in 1..Len(call.calls) :
              /\ j \notin {p[1], p[2]}
              /\ call.calls[j].op = "createProject"
              => toLowerCase(call.calls[j].name) # toLowerCase(call.calls[p[1]].name)}

\* C38: two createProject calls started concurrently with names that are equal
\* ignoring case never both succeed: under every interleaving at await boundaries
\* exactly one resolves and the other rejects with the duplicate-name error.
C38_EqualNamesOneSucceeds ==
    \A p \in racing :
       \/ p[1] \in resolved /\ duplicateRejected(p[2])
       \/ p[2] \in resolved /\ duplicateRejected(p[1])

=============================================================================
